---- MODULE Spec2Model ----
(***************************************************************************)
(* Model of alby/alby_oauth_service.go: the OAuth token cache              *)
(* (fetchUserToken, saveToken, IsConnected), the authorization callback    *)
(* (CallbackHandler, GetMe), account link/unlink (LinkAccount,             *)
(* UnlinkAccount and the three provisioning requests) and the telemetry    *)
(* relay (ConsumeEvent, backupChannels).                                   *)
(*                                                                         *)
(* Every goroutine that calls into the service is a thread.  A thread is   *)
(* idle, or it runs one public operation step by step: one step per        *)
(* config-store read or write, per mutex acquisition, per database         *)
(* statement and per provider request.  Strings of the config store are    *)
(* modelled as follows: identifiers and addresses are TLA+ strings,        *)
(* tokens are tuples (<<>> is the empty string) and the expiry is the      *)
(* sequence of decimal digits that strconv.FormatInt writes.               *)
(***************************************************************************)
EXTENDS Integers, Sequences, FiniteSets, TLC

\* ---------------------------------------------------------------- bounds
NThreads == 2        \* goroutines calling into the service
MaxOps == 2          \* public operations called in one behaviour
MaxTime == 2         \* seconds the clock may advance
MaxGrants == 2       \* tokens the provider issues in one behaviour

\* ------------------------------------------------------ program constants
TokenBuffer == 20            \* seconds, fetchUserToken
AutoLinkBudget == 1000000    \* CallbackHandler
ALBY_ACCOUNT_APP_NAME == "getalby.com"
BUDGET_RENEWAL_MONTHLY == "monthly"
NOTIFICATIONS_SCOPE == "notifications"
\* resp.StatusCode >= 300 is a non-success status
FirstNonSuccess == 300
\* uint16 has 16 bits
PortModulus == 65536
\* the decimal digits of the largest int64 and uint64 (19 and 20): a longer
\* number is out of range for strconv
MaxDigits == 19
\* paymentRequest.MSatoshi/1000, amountSat * 1000
MsatPerSat == 1000
\* "Alby fee reserve (10 sats)"
DrainReserveSat == 10

Threads == 1..NThreads
NoThread == 0
Users == {"user1", "user2"}
\* lifetimes (seconds) the provider gives to a token: one inside the buffer,
\* one outside it
Lifetimes == {TokenBuffer - 1, TokenBuffer + 1}
EmptyStr == <<>>
NilToken == [nil |-> TRUE]
NoMe == [Identifier |-> "", LightningAddress |-> ""]

\* ------------------------------------------------- strconv (expiry string)
RECURSIVE FormatDigits(_)
FormatDigits(n) == IF n < 10 THEN <<n>> ELSE Append(FormatDigits(n \div 10), n % 10)

\* strconv.FormatInt(n, 10) for n >= 0: the decimal digits, most significant first
FormatInt(n) == FormatDigits(n)

RECURSIVE ParseDigits(_, _)
ParseDigits(s, acc) ==
    IF s = <<>> THEN acc ELSE ParseDigits(Tail(s), acc * 10 + Head(s))

\* strconv.ParseInt(s, 10, 64): an error for the empty string and for any
\* character that is not a digit
ParseInt(s) ==
    IF s # <<>> /\ \A i \in 1..Len(s) : s[i] \in 0..9
    THEN [ok |-> TRUE, val |-> ParseDigits(s, 0)]
    ELSE [ok |-> FALSE, val |-> 0]

\* ------------------------------------------------------- provider's tokens
\* the token of grant g for account u, expiring at time e
Grant(g, u, e) ==
    [AccessToken |-> <<"at", g, u>>, RefreshToken |-> <<"rt", g, u>>, Expiry |-> e]

\* the account the provider resolves a bearer token to (GET /internal/users)
AccountOf(tok) == tok.AccessToken[3]
\* the connection pubkey of the sub-node the provider keeps for an account
\* (POST /internal/nwcs)
ConnKeyOf(u) == IF u = "user1" THEN "nwc1" ELSE "nwc2"
AddressOf(u) == IF u = "user1" THEN "user1@getalby.com" ELSE "user2@getalby.com"

\* ------------------------------------------------ provisioning responses
\* status codes the provider answers with, the last success status and the
\* first non-success one; NoResponse when client.Do returned an error instead
\* of a response
Statuses == {FirstNonSuccess - 1, FirstNonSuccess}
NoResponse == 0

\* the HTTP status an error value carries: the provisioning errors are
\* errors.New("request to ... returned non-success status"), a fixed text
ErrStatus(e) == NoResponse

\* ----------------------------------------------------- permission scopes
\* the scope that grants a NIP-47 request method
RequestMethodToScope(m) ==
    IF m \in {"pay_invoice", "pay_keysend"} THEN "pay_invoice" ELSE m

\* permissions.RequestMethodsToScopes: the scopes of the methods
RequestMethodsToScopes(methods) == {RequestMethodToScope(m) : m \in methods}

\* what an LNClient reports: GetSupportedNIP47Methods() and
\* GetSupportedNIP47NotificationTypes()
NodeCaps ==
    {[methods |-> {"pay_invoice", "pay_keysend", "get_balance"}, notifs |-> {"payment_received"}],
     [methods |-> {"get_info"}, notifs |-> {}]}

\* ------------------------------------------------- events and their JSON
\* a JSON object, or a Go map[string]interface{}: a function from its keys
EmptyMap == [k \in {} |-> ""]

\* db.Transaction, the fields ConsumeEvent reads and one it does not.
\* SettledAt is a pointer: Settled = FALSE stands for nil.  A payment settles
\* after it was created.
Transactions ==
    {x \in [PaymentHash : {"h1", "h2"}, AmountMsat : {1000, 2000}, CreatedAt : {1},
            Settled : BOOLEAN, SettledAt : {0, 1, 3}, FailureReason : {"", "no_route"}] :
        IF x.Settled THEN x.SettledAt >= x.CreatedAt ELSE x.SettledAt = 0}

SomeTx ==
    [PaymentHash |-> "h1", AmountMsat |-> 1000, CreatedAt |-> 1, Settled |-> TRUE,
     SettledAt |-> 3, FailureReason |-> ""]

NoTx ==
    [PaymentHash |-> "", AmountMsat |-> 0, CreatedAt |-> 0, Settled |-> FALSE,
     SettledAt |-> 0, FailureReason |-> ""]

\* the globalProperties a caller passes
GlobalProperties ==
    {EmptyMap, [version |-> "1"], [paymentHash |-> "xyz", version |-> "1"],
     [payment_hash |-> "xyz", version |-> "1"]}

\* An event and the global properties ConsumeEvent is handed.  kind is the
\* dynamic type of event.Properties: "tx" a *db.Transaction (tx), "backup" a
\* *events.ChannelBackupEvent, "struct" a value that encodes to a JSON object
\* (fields), "string" one that encodes to a JSON string, "chan" one that
\* encoding/json cannot encode, "nil" no properties.
Event(name, kind, tx, fields, globals) ==
    [Event |-> name, kind |-> kind, tx |-> tx, fields |-> fields, globals |-> globals]

NoEvent == Event("", "nil", NoTx, EmptyMap, EmptyMap)

\* the events of a run that also links and unlinks
Events ==
    {Event(n, k, NoTx, EmptyMap, [version |-> "1"]) :
        n \in {"nwc_backup_channels"}, k \in {"backup", "nil"}}
    \cup {Event(n, k, IF k = "tx" THEN SomeTx ELSE NoTx, EmptyMap, [version |-> "1"]) :
        n \in {"nwc_payment_received", "nwc_payment_failed"}, k \in {"tx", "nil"}}
    \cup {Event("nwc_lnclient_started", "nil", NoTx, EmptyMap, [version |-> "1"]),
          Event("nwc_payment_sent", "tx", SomeTx, EmptyMap, [version |-> "1"]),
          Event("nwc_app_created", "struct", NoTx, [id |-> "7"], [version |-> "1"])}

\* the events of a run of the relay alone
RelayEvents ==
    {Event(n, "tx", x, EmptyMap, g) :
        n \in {"nwc_payment_received", "nwc_payment_sent", "nwc_payment_failed"},
        x \in Transactions, g \in GlobalProperties}
    \cup {Event(n, "nil", NoTx, EmptyMap, g) :
        n \in {"nwc_payment_received", "nwc_payment_sent", "nwc_payment_failed",
               "nwc_backup_channels", "nwc_lnclient_started", "nwc_app_created"},
        g \in GlobalProperties}
    \cup {Event("nwc_backup_channels", "backup", NoTx, EmptyMap, g) : g \in GlobalProperties}
    \cup {Event("nwc_app_created", k, NoTx, EmptyMap, g) :
        k \in {"string", "chan"}, g \in GlobalProperties}
    \cup {Event("nwc_app_created", "struct", NoTx, f, g) :
        f \in {EmptyMap, [id |-> "7"], [paymentHash |-> "abc"]}, g \in GlobalProperties}

\* no event name counts as internal
IsLNClientEventNever(name) == FALSE

\* strings.HasPrefix(event.Event, "nwc_lnclient_")
IsLNClientEvent(name) == name = "nwc_lnclient_started"

IsPaymentEvent(name) ==
    name \in {"nwc_payment_received", "nwc_payment_sent", "nwc_payment_failed"}

\* the payment events are posted as they came
RewriteEventKeepsTransaction(e) == [outcome |-> "ok", event |-> e]

\* the event that replaces a payment event ("pass a new custom event with less
\* detail"), or the event itself.  event.Properties.(*db.Transaction) panics
\* when the properties are not a transaction, and so does SettledAt.Unix() on
\* a transaction that has not settled; nwc_payment_failed tests the assertion
\* and returns.
RewriteEvent(e) ==
    IF e.Event = "nwc_payment_received"
    THEN IF e.kind # "tx" THEN [outcome |-> "panic", event |-> e]
         ELSE [outcome |-> "ok",
               event |-> Event(e.Event, "struct", NoTx,
                               [payment_hash |-> e.tx.PaymentHash], e.globals)]
    ELSE IF e.Event = "nwc_payment_sent"
    THEN IF e.kind # "tx" \/ ~e.tx.Settled THEN [outcome |-> "panic", event |-> e]
         ELSE [outcome |-> "ok",
               event |-> Event(e.Event, "struct", NoTx,
                               [payment_hash |-> e.tx.PaymentHash,
                                duration |-> e.tx.SettledAt - e.tx.CreatedAt], e.globals)]
    ELSE IF e.Event = "nwc_payment_failed"
    THEN IF e.kind # "tx" THEN [outcome |-> "cast failed", event |-> e]
         ELSE [outcome |-> "ok",
               event |-> Event(e.Event, "struct", NoTx,
                               [payment_hash |-> e.tx.PaymentHash,
                                reason |-> e.tx.FailureReason], e.globals)]
    ELSE [outcome |-> "ok", event |-> e]

\* the JSON object encoding/json writes for a *db.Transaction (its other
\* fields are left out of the model)
TransactionJSON(x) ==
    [payment_hash |-> x.PaymentHash, amount_msat |-> x.AmountMsat,
     created_at |-> x.CreatedAt, settled_at |-> x.SettledAt,
     failure_reason |-> x.FailureReason]

\* json.NewEncoder(originalEventBuffer).Encode(event): the JSON value of the
\* "properties" member, or an error
EncodeProperties(e) ==
    IF e.kind = "chan" THEN [err |-> TRUE, json |-> "", object |-> EmptyMap]
    ELSE IF e.kind = "nil" THEN [err |-> FALSE, json |-> "null", object |-> EmptyMap]
    ELSE IF e.kind = "string" THEN [err |-> FALSE, json |-> "string", object |-> EmptyMap]
    ELSE IF e.kind = "tx" THEN [err |-> FALSE, json |-> "object", object |-> TransactionJSON(e.tx)]
    ELSE [err |-> FALSE, json |-> "object", object |-> e.fields]

\* json.Unmarshal into eventWithPropertiesMap: null leaves Properties nil,
\* which is replaced by an empty map; a JSON value that is not an object is an
\* error
DecodeProperties(enc) ==
    IF enc.json = "object" THEN [err |-> FALSE, map |-> enc.object]
    ELSE IF enc.json = "null" THEN [err |-> FALSE, map |-> EmptyMap]
    ELSE [err |-> TRUE, map |-> EmptyMap]

\* a global property replaces the event's own
MergeGlobalWins(properties, globalProperties) ==
    [k \in DOMAIN properties \cup DOMAIN globalProperties |->
        IF k \in DOMAIN globalProperties THEN globalProperties[k] ELSE properties[k]]

\* "add global properties to each published event": a key the event already
\* has is skipped
MergeGlobalProperties(properties, globalProperties) ==
    [k \in DOMAIN properties \cup DOMAIN globalProperties |->
        IF k \in DOMAIN properties THEN properties[k] ELSE globalProperties[k]]

NoBody == [event |-> "", properties |-> EmptyMap]

\* the body of POST /events for the (rewritten) event e, or the step that failed
EventBody(e) ==
    LET enc == EncodeProperties(e)
        dec == DecodeProperties(enc)
    IN  IF enc.err THEN [err |-> "encode failed", body |-> NoBody]
        ELSE IF dec.err THEN [err |-> "decode failed", body |-> NoBody]
        ELSE [err |-> "",
              body |-> [event |-> e.Event,
                        properties |-> MergeGlobalProperties(dec.map, e.globals)]]

\* ------------------------------------------------------------- LSP URIs
\* A string the service parses is the sequence of its characters.
DigitChars == <<"0", "1", "2", "3", "4", "5", "6", "7", "8", "9">>
Digit == {DigitChars[i] : i \in 1..10}
HexDigit == Digit \cup {"a", "b", "c", "d", "e", "f"}
DigitOf(c) == (CHOOSE i \in 1..10 : DigitChars[i] = c) - 1

\* 02ab@1.2.3.4:9735: a clear IPv4 URI
UriIPv4 == <<"0", "2", "a", "b", "@", "1", ".", "2", ".", "3", ".", "4", ":", "9", "7", "3", "5">>

\* 03cd@10.0.0.7:39735: a second clear IPv4 URI
UriIPv4Second == <<"0", "3", "c", "d", "@", "1", "0", ".", "0", ".", "0", ".", "7", ":", "3", "9", "7", "3", "5">>

\* 02ab@1.2.3.4:70000: a port above 65535
UriBigPort == <<"0", "2", "a", "b", "@", "1", ".", "2", ".", "3", ".", "4", ":", "7", "0", "0", "0", "0">>

\* 02ab@abcd.onion:9735: a Tor address
UriOnion == <<"0", "2", "a", "b", "@", "a", "b", "c", "d", ".", "o", "n", "i", "o", "n", ":", "9", "7", "3", "5">>

\* 02ab@[::1]:9735: an IPv6 address
UriIPv6 == <<"0", "2", "a", "b", "@", "[", ":", ":", "1", "]", ":", "9", "7", "3", "5">>

\* the number of leading characters of s that are in class
RECURSIVE SpanLen(_, _)
SpanLen(s, class) ==
    IF s = <<>> \/ Head(s) \notin class THEN 0 ELSE 1 + SpanLen(Tail(s), class)

Drop(s, n) == SubSeq(s, n + 1, Len(s))
Take(s, n) == SubSeq(s, 1, n)

\* strings.Contains(s, sub)
Contains(s, sub) ==
    \E i \in 1..(Len(s) + 1) :
        i + Len(sub) - 1 <= Len(s) /\ SubSeq(s, i, i + Len(sub) - 1) = sub

\* the length of the longest prefix of s that matches
\* [0-9]+\.[0-9]+\.[0-9]+\.[0-9]+, or 0
RECURSIVE SpanDotted(_, _)
SpanDotted(s, groups) ==
    LET n == SpanLen(s, Digit)
        rest == Drop(s, n)
    IN  IF n = 0 THEN 0
        ELSE IF groups = 1 THEN n
        ELSE IF rest = <<>> \/ Head(rest) # "." THEN 0
        ELSE LET m == SpanDotted(Tail(rest), groups - 1)
             IN  IF m = 0 THEN 0 ELSE n + 1 + m

\* regex.FindStringSubmatch(uri) for
\* ^([0-9a-f]+)@([0-9]+\.[0-9]+\.[0-9]+\.[0-9]+):([0-9]+)$
\* (the character classes of neighbouring parts are disjoint, so the greedy
\* match is the only one)
FindStringSubmatch(uri) ==
    LET n1 == SpanLen(uri, HexDigit)
        r1 == Drop(uri, n1)
        r2 == IF r1 = <<>> THEN <<>> ELSE Tail(r1)
        n2 == SpanDotted(r2, 4)
        r3 == Drop(r2, n2)
        r4 == IF r3 = <<>> THEN <<>> ELSE Tail(r3)
        n3 == SpanLen(r4, Digit)
    IN  IF /\ n1 > 0 /\ r1 # <<>> /\ Head(r1) = "@"
           /\ n2 > 0 /\ r3 # <<>> /\ Head(r3) = ":"
           /\ n3 > 0 /\ n3 = Len(r4)
        THEN <<uri, Take(uri, n1), Take(r2, n2), r4>>
        ELSE <<>>

RECURSIVE DecimalValue(_, _)
DecimalValue(s, acc) ==
    IF s = <<>> THEN acc ELSE DecimalValue(Tail(s), acc * 10 + DigitOf(Head(s)))

\* the digits of s without leading zeros
RECURSIVE Significant(_)
Significant(s) ==
    IF Len(s) > 1 /\ Head(s) = "0" THEN Significant(Tail(s)) ELSE s

\* strconv.Atoi(s) for a string of digits: a number with more digits than
\* MaxDigits is out of range
Atoi(s) ==
    IF s = <<>> \/ \E i \in 1..Len(s) : s[i] \notin Digit
    THEN [ok |-> FALSE, val |-> 0]
    ELSE IF Len(Significant(s)) > MaxDigits THEN [ok |-> FALSE, val |-> 0]
    ELSE [ok |-> TRUE, val |-> DecimalValue(s, 0)]

\* uint16(portValue) keeps the low 16 bits
Uint16(n) == n % PortModulus

\* ".onion"
Onion == <<".", "o", "n", "i", "o", "n">>

NotOnion(uri) == ~Contains(uri, Onion)

NoPeer == [pubkey |-> <<>>, address |-> <<>>, port |-> 0]

\* getLSPInfo once the answer is decoded: the URIs without ".onion" are kept
\* (utils.Filter); when none is left err is returned, which is the nil error
\* of json.Unmarshal; the first one must match the pattern and its port must
\* be a number, and the port is converted to uint16
GetLSPInfoParse(uris) ==
    LET httpUris == SelectSeq(uris, NotOnion)
    IN  IF Len(httpUris) = 0 THEN [err |-> "", peer |-> NoPeer]
        ELSE LET parts == FindStringSubmatch(httpUris[1])
             IN  IF parts = <<>> \/ Len(parts) # 4
                 THEN [err |-> "could not decode LSP URI", peer |-> NoPeer]
                 ELSE IF ~Atoi(parts[4]).ok
                 THEN [err |-> "atoi", peer |-> NoPeer]
                 ELSE [err |-> "", peer |-> [pubkey |-> parts[2], address |-> parts[3],
                                 port |-> Uint16(Atoi(parts[4]).val)]]

\* the URI lists an LSP answers with
URILists ==
    {<<>>, <<UriIPv4>>, <<UriBigPort>>, <<UriOnion>>, <<UriIPv6>>,
     <<UriOnion, UriIPv4Second>>, <<UriIPv6, UriIPv4>>}

\* ------------------------------------------------- auto-channel responses
\* A bolt11 invoice: whether it decodes, and the amount and multiplier of its
\* human-readable part (lnbc5u is 5 micro-bitcoin)
Invoice(ok, amount, multiplier) == [ok |-> ok, amount |-> amount, multiplier |-> multiplier]

NoInvoice == Invoice(FALSE, 0, "")

Invoices == {Invoice(TRUE, 5, "u"), Invoice(TRUE, 5009990, "p"), Invoice(FALSE, 0, "")}

\* decodepay.Decodepay(invoice): MSatoshi from the amount and its multiplier
\* (milli, micro, nano, pico bitcoin; a bitcoin is 10^11 millisatoshis)
Decodepay(invoice) ==
    IF ~invoice.ok THEN [ok |-> FALSE, MSatoshi |-> 0]
    ELSE [ok |-> TRUE,
          MSatoshi |-> IF invoice.multiplier = "m" THEN invoice.amount * 100000000
                       ELSE IF invoice.multiplier = "u" THEN invoice.amount * 100000
                       ELSE IF invoice.multiplier = "n" THEN invoice.amount * 100
                       ELSE invoice.amount \div 10]

\* a parse that takes what is not a number as 0
ParseUintOrZero(s) ==
    IF s = <<>> \/ \E i \in 1..Len(s) : s[i] \notin Digit
    THEN [ok |-> TRUE, val |-> 0]
    ELSE IF Len(Significant(s)) > MaxDigits THEN [ok |-> FALSE, val |-> 0]
    ELSE [ok |-> TRUE, val |-> DecimalValue(s, 0)]

\* strconv.ParseUint(s, 10, 64): digits only, no sign
ParseUint(s) ==
    IF s = <<>> \/ \E i \in 1..Len(s) : s[i] \notin Digit
    THEN [ok |-> FALSE, val |-> 0]
    ELSE IF Len(Significant(s)) > MaxDigits THEN [ok |-> FALSE, val |-> 0]
    ELSE [ok |-> TRUE, val |-> DecimalValue(s, 0)]

\* the body of the answer of POST .../auto_channel: payment is whether the
\* "payment" member is there
AutoChannelBodies ==
    {[payment |-> FALSE, invoice |-> NoInvoice, fee_total_sat |-> <<>>, lsp_balance_sat |-> b] :
        b \in {<<"1", "0", "0", "0", "0", "0">>, <<>>}}
    \cup [payment : {TRUE}, invoice : Invoices,
          fee_total_sat : {<<"5", "0", "0">>, <<"5", "0", "1">>, <<"5", "e", "2">>},
          lsp_balance_sat : {<<"1", "0", "0", "0", "0", "0">>, <<"x">>}]

NoResult == [Invoice |-> NoInvoice, Fee |-> 0, ChannelSize |-> 0]

\* the declared fee may exceed the invoice
ParseAutoChannelResponseAtLeast(body) ==
    LET fee == ParseUint(body.fee_total_sat)
        paymentRequest == Decodepay(body.invoice)
        channelSize == ParseUint(body.lsp_balance_sat)
    IN  IF body.payment /\ ~fee.ok THEN [err |-> "failed to parse fee", result |-> NoResult]
        ELSE IF body.payment /\ ~paymentRequest.ok
        THEN [err |-> "decodepay", result |-> NoResult]
        ELSE IF body.payment /\ fee.val < paymentRequest.MSatoshi \div MsatPerSat
        THEN [err |-> "invoice amount does not match LSP fee", result |-> NoResult]
        ELSE IF ~channelSize.ok
        THEN [err |-> "failed to parse lsp balance sat", result |-> NoResult]
        ELSE [err |-> "",
              result |-> [Invoice |-> IF body.payment THEN body.invoice ELSE NoInvoice,
                          Fee |-> IF body.payment THEN fee.val ELSE 0,
                          ChannelSize |-> channelSize.val]]

\* requestAutoChannel once the answer is decoded: with a payment the fee is
\* parsed, the invoice decoded and fee compared with MSatoshi/1000; then the
\* channel size is parsed
ParseAutoChannelResponse(body) ==
    LET fee == ParseUint(body.fee_total_sat)
        paymentRequest == Decodepay(body.invoice)
        channelSize == ParseUint(body.lsp_balance_sat)
    IN  IF body.payment /\ ~fee.ok THEN [err |-> "failed to parse fee", result |-> NoResult]
        ELSE IF body.payment /\ ~paymentRequest.ok
        THEN [err |-> "decodepay", result |-> NoResult]
        ELSE IF body.payment /\ fee.val # paymentRequest.MSatoshi \div MsatPerSat
        THEN [err |-> "invoice amount does not match LSP fee", result |-> NoResult]
        ELSE IF ~channelSize.ok
        THEN [err |-> "failed to parse lsp balance sat", result |-> NoResult]
        ELSE [err |-> "",
              result |-> [Invoice |-> IF body.payment THEN body.invoice ELSE NoInvoice,
                          Fee |-> IF body.payment THEN fee.val ELSE 0,
                          ChannelSize |-> channelSize.val]]

\* ------------------------------------------------------------ float64
\* the checker's integers are 32 bits wide: a satoshi amount, and the
\* fraction float64 carries with it, is a sequence of limbs of LimbBits
\* bits, lowest first, without leading zero limbs
LimbBits == 13
Limb == 2 ^ LimbBits

\* the float64 significand
MantissaBits == 53

\* the limbs behind the binary point of a float64 value
FracLimbs == 5

LimbAt(a, i) == IF i \in 1..Len(a) THEN a[i] ELSE 0

Normal(a) ==
    IF \A i \in 1..Len(a) : a[i] = 0 THEN <<>>
    ELSE Take(a, CHOOSE i \in 1..Len(a) : a[i] # 0 /\ \A j \in (i + 1)..Len(a) : a[j] = 0)

NatLimbs(n) == Normal(<<n % Limb, (n \div Limb) % Limb, n \div (Limb * Limb)>>)

Add(a, b) ==
    LET n == IF Len(a) > Len(b) THEN Len(a) ELSE Len(b)
        sum(i) == LimbAt(a, i) + LimbAt(b, i)
        carry(i) == IF \E j \in 1..(i - 1) :
                          sum(j) >= Limb /\ \A k \in (j + 1)..(i - 1) : sum(k) = Limb - 1
                    THEN 1 ELSE 0
    IN  Normal([i \in 1..(n + 1) |-> (sum(i) + carry(i)) % Limb])

\* a - b for a >= b
Sub(a, b) ==
    LET borrow(i) == IF \E j \in 1..(i - 1) :
                           a[j] < LimbAt(b, j) /\ \A k \in (j + 1)..(i - 1) : a[k] = LimbAt(b, k)
                     THEN 1 ELSE 0
    IN  Normal([i \in 1..Len(a) |-> (a[i] - LimbAt(b, i) - borrow(i) + Limb) % Limb])

Less(a, b) ==
    \/ Len(a) < Len(b)
    \/ /\ Len(a) = Len(b)
       /\ \E i \in 1..Len(a) : a[i] < b[i] /\ \A j \in (i + 1)..Len(a) : a[j] = b[j]

RECURSIVE ColumnSum(_, _, _, _)
ColumnSum(a, b, k, i) ==
    IF i > Len(a) THEN 0 ELSE a[i] * LimbAt(b, k + 1 - i) + ColumnSum(a, b, k, i + 1)

RECURSIVE Carry(_, _, _)
Carry(cols, i, c) ==
    IF i > Len(cols) THEN <<c % Limb, c \div Limb>>
    ELSE <<(cols[i] + c) % Limb>> \o Carry(cols, i + 1, (cols[i] + c) \div Limb)

Mul(a, b) ==
    IF a = <<>> \/ b = <<>> THEN <<>>
    ELSE Normal(Carry([k \in 1..(Len(a) + Len(b) - 1) |-> ColumnSum(a, b, k, 1)], 1, 0))

RECURSIVE DivFrom(_, _, _, _)
DivFrom(a, d, i, r) ==
    IF i = 0 THEN [q |-> <<>>, r |-> r]
    ELSE LET x == r * Limb + a[i]
             rest == DivFrom(a, d, i - 1, x % d)
         IN  [q |-> Append(rest.q, x \div d), r |-> rest.r]

\* quotient and remainder of a by a small d
DivSmall(a, d) == LET x == DivFrom(a, d, Len(a), 0) IN [q |-> Normal(x.q), r |-> x.r]

BitLen(a) ==
    IF a = <<>> THEN 0
    ELSE (Len(a) - 1) * LimbBits
         + CHOOSE k \in 1..LimbBits : 2 ^ (k - 1) <= a[Len(a)] /\ a[Len(a)] < 2 ^ k

ShiftRight(a, d) ==
    LET s == d % LimbBits
        hi == Drop(a, d \div LimbBits)
    IN  Normal([i \in 1..Len(hi) |->
                   (hi[i] \div (2 ^ s)) + (LimbAt(hi, i + 1) % (2 ^ s)) * (2 ^ (LimbBits - s))])

ShiftLeft(a, d) ==
    LET s == d % LimbBits
    IN  [i \in 1..(d \div LimbBits) |-> 0]
        \o Normal([i \in 1..(Len(a) + 1) |->
                      ((LimbAt(a, i) * (2 ^ s)) % Limb) + (LimbAt(a, i - 1) \div (2 ^ (LimbBits - s)))])

\* the bits of a below bit d are zero
LowZero(a, d) ==
    /\ \A i \in 1..(d \div LimbBits) : LimbAt(a, i) = 0
    /\ LimbAt(a, (d \div LimbBits) + 1) % (2 ^ (d % LimbBits)) = 0

\* the float64 nearest to a, ties to even; sticky says that a stands for a
\* value slightly above it
RoundToFloat64(a, sticky) ==
    LET d == BitLen(a) - MantissaBits
    IN  IF d <= 0 THEN a
        ELSE LET kept == ShiftRight(a, d)
                 half == ShiftRight(a, d - 1)[1] % 2 = 1
                 low == sticky \/ ~LowZero(a, d - 1)
                 up == half /\ (low \/ kept[1] % 2 = 1)
             IN  ShiftLeft(IF up THEN Add(kept, <<1>>) ELSE kept, d)

\* the whole part of a float64 value, and a whole number as a float64 value
Floor(x) == Drop(x, FracLimbs)
Whole(a) == IF a = <<>> THEN <<>> ELSE [i \in 1..FracLimbs |-> 0] \o a

\* the float64 constant num/den
Float64Of(num, den) ==
    LET x == DivSmall(Whole(NatLimbs(num)), den)
    IN  RoundToFloat64(x.q, x.r # 0)

\* a number written in decimal digits
RECURSIVE FromDecimal(_, _)
FromDecimal(s, acc) ==
    IF s = <<>> THEN acc
    ELSE FromDecimal(Tail(s), Add(Mul(acc, NatLimbs(10)), NatLimbs(DigitOf(Head(s)))))

\* int64: a sign and a magnitude
Int64(neg, mag) == [neg |-> neg, mag |-> mag]

\* a - n for a small n
Minus(a, n) ==
    IF Less(a, NatLimbs(n)) THEN Int64(TRUE, Sub(NatLimbs(n), a))
    ELSE Int64(FALSE, Sub(a, NatLimbs(n)))

\* the low Int64Bits bits of a
Int64Bits == 64
LowBits(a, n) ==
    Normal([i \in 1..Len(a) |->
               IF i <= n \div LimbBits THEN a[i]
               ELSE IF i = (n \div LimbBits) + 1 THEN a[i] % (2 ^ (n % LimbBits))
               ELSE 0])

\* ------------------------------------------------------------ drain
\* the balances (satoshis) the provider reports for the shared wallet, as
\* the digits of its answer; the last one is above 2^45
BalanceDigits ==
    {<<"0">>, <<"1", "0">>, <<"1", "1">>, <<"1", "2">>, <<"1", "0", "0", "0">>,
     <<"1", "4", "9", "9">>,
     <<"3", "5", "4", "6", "8", "1", "4", "1", "7", "7", "5", "3", "8", "9">>}

Balances == {FromDecimal(s, <<>>) : s \in BalanceDigits}

\* 8.0/1000.0 and 0.01: constants, converted to float64 when they meet
\* balanceSat
ServiceFee == Float64Of(8, 1000)
RoutingFee == Float64Of(1, 100)

\* amountSat of DrainSharedWallet, in float64: balanceSat less
\* balanceSat*(8.0/1000.0), less balanceSat*0.01, rounded down, less 10. Each
\* product and each difference is rounded to a float64; a build that fuses
\* x - y*z into one instruction does not round the products
DrainAmountSat(balance, fused) ==
    LET balanceSat == RoundToFloat64(balance, FALSE)
        Product(c) == IF fused THEN Mul(balanceSat, c)
                      ELSE RoundToFloat64(Mul(balanceSat, c), FALSE)
        afterFee == RoundToFloat64(Sub(Whole(balanceSat), Product(ServiceFee)), FALSE)
        afterRouting == RoundToFloat64(Sub(afterFee, Product(RoutingFee)), FALSE)
    IN  Minus(Floor(afterRouting), DrainReserveSat)

\* a withdrawable amount of zero is let through
NotEnoughBalanceBelowZero(amountSat) == amountSat.neg

\* amountSat < 1
NotEnoughBalance(amountSat) == amountSat.neg \/ amountSat.mag = <<>>

\* amount := amountSat * 1000, an int64
DrainAmount(amountSat) == LowBits(Mul(amountSat.mag, NatLimbs(MsatPerSat)), Int64Bits)

\* the locals of RequestAutoChannel and of DrainSharedWallet, and the calls
\* they made on the local node
NoBodyYet ==
    [payment |-> FALSE, invoice |-> NoInvoice, fee_total_sat |-> <<>>, lsp_balance_sat |-> <<>>]

NoWork ==
    [nodePubkey |-> "", answered |-> FALSE, uris |-> <<>>, peer |-> NoPeer, connects |-> <<>>, requests |-> <<>>,
     body |-> NoBodyYet, result |-> NoResult, balanceRead |-> FALSE, balance |-> <<>>, amountSat |-> Int64(FALSE, <<>>),
     invoices |-> <<>>, paid |-> <<>>]

\* ------------------------------------------------------- expiry check
\* a token with exactly 20 seconds left is still used
TokenStillUsableInclusive(expiry, t) == expiry >= t + TokenBuffer

\* currentToken.Expiry.After(time.Now().Add(20 * time.Second))
TokenStillUsable(expiry, t) == expiry > t + TokenBuffer

VARIABLES
    \* config store (svc.cfg), by key
    accessToken,        \* AlbyOAuthAccessToken
    accessTokenExpiry,  \* AlbyOAuthAccessTokenExpiry
    refreshToken,       \* AlbyOAuthRefreshToken
    userIdentifier,     \* AlbyUserIdentifier
    lightningAddress,   \* AlbyLightningAddress
    env,                \* cfg.GetEnv(): AutoLinkAlbyAccount, LogEvents
    apps,               \* rows of db.App named getalby.com
    tokenMutex,         \* holder of tokenMutex, or NoThread
    now,                \* time.Now(), seconds
    nextGrant,          \* provider: id of the next token it issues
    \* per thread
    pc,                 \* position in the running operation
    op,                 \* the public operation the thread runs
    site,               \* where fetchUserToken returns to
    cur,                \* fetchUserToken: accessToken, expiry, refreshToken read so far
    newToken,           \* the token saveToken is writing
    token,              \* what fetchUserToken returned (NilToken for nil)
    ferr,               \* whether fetchUserToken returned an error
    me,                 \* GetMe's result
    existing,           \* existingUserIdentifier
    connKey,            \* connectionPubkey returned by createAlbyAccountNWCNode
    lerr,               \* error LinkAccount returns ("" for nil)
    resp,               \* status of the provider's answer to the last provisioning request
    ev,                 \* the event ConsumeEvent was handed
    code,               \* the account whose authorization code CallbackHandler was handed
    largs,              \* LinkAccount's budget and renewal
    work,               \* the locals of RequestAutoChannel and DrainSharedWallet
    \* observations of the run, written but never read by the program
    res,                \* what the finished operation returned
    pre,                \* the persisted session and identity when the operation began
    fNow,               \* the time.Now() of the operation's last expiry check
    nExch,              \* refresh exchanges the operation has issued
    nLink,              \* LinkAccount calls the operation has made
    sent,               \* provider requests the operation has sent, in order
    lastDone,           \* the operation that returned last: a CallbackHandler's error, "unlinked"
    opsStarted,         \* operations called so far
    serial              \* whether the callers run one operation at a time

cfgVars == <<accessToken, accessTokenExpiry, refreshToken, userIdentifier, lightningAddress>>
sessVars == <<accessToken, accessTokenExpiry, refreshToken>>
globVars == <<env, apps, tokenMutex, now, nextGrant>>
fetchVars == <<site, cur, newToken, token, ferr>>
opVars == <<me, existing, connKey, lerr, resp, ev, code, largs, work>>
obsVars == <<res, pre, fNow, nExch, nLink, sent, lastDone, opsStarted, serial>>
obsRest == <<pre, fNow, lastDone, opsStarted, serial>>
vars == <<cfgVars, globVars, pc, op, fetchVars, opVars, obsVars>>

NoCur == [accessToken |-> EmptyStr, expiry |-> EmptyStr, refreshToken |-> EmptyStr]
NoRes ==
    [err |-> "", token |-> NilToken, connected |-> FALSE, linkErr |-> "", note |-> "",
     posted |-> NoBody, uploads |-> 0, berr |-> ""]
NoArgs == [budget |-> 0, renewal |-> "", methods |-> {}, notifs |-> {}]
NoPre == [accessToken |-> EmptyStr, expiry |-> EmptyStr, refreshToken |-> EmptyStr,
          userIdentifier |-> "", lightningAddress |-> "", apps |-> <<>>]

\* the persisted state as one record
Persisted ==
    [accessToken |-> accessToken, expiry |-> accessTokenExpiry,
     refreshToken |-> refreshToken, userIdentifier |-> userIdentifier,
     lightningAddress |-> lightningAddress, apps |-> apps]

\* the row LinkAccount inserts with db.CreateApp
AppRow(key, budget, renewal, scopes) ==
    [name |-> ALBY_ACCOUNT_APP_NAME, pubkey |-> key, budget |-> budget, renewal |-> renewal,
     scopes |-> scopes]

\* ------------------------------------------------------------------ Init
\* The config store and the database outlive the process: the service starts
\* on a fresh install, or on a hub that was linked to user1 in an earlier run
\* (token 0, expiring inside or outside the buffer).
\* the budget, renewal and LNClient a caller of LinkAccount passes
LinkArgs ==
    {[budget |-> AutoLinkBudget, renewal |-> BUDGET_RENEWAL_MONTHLY,
      methods |-> {"pay_invoice", "pay_keysend", "get_balance"}, notifs |-> {"payment_received"}],
     [budget |-> 0, renewal |-> "never", methods |-> {"get_info"}, notifs |-> {}]}

InitStores ==
    {NoPre} \cup
    {[accessToken |-> Grant(0, "user1", l).AccessToken,
      expiry |-> FormatInt(l),
      refreshToken |-> Grant(0, "user1", l).RefreshToken,
      userIdentifier |-> "user1",
      lightningAddress |-> AddressOf("user1"),
      apps |-> <<AppRow("nwc0", AutoLinkBudget, BUDGET_RENEWAL_MONTHLY,
                        {"pay_invoice", NOTIFICATIONS_SCOPE})>>] : l \in Lifetimes}

\* the persisted state the process finds when it starts
InitStored(stores) ==
    \E st \in stores :
        /\ accessToken = st.accessToken
        /\ accessTokenExpiry = st.expiry
        /\ refreshToken = st.refreshToken
        /\ userIdentifier = st.userIdentifier
        /\ lightningAddress = st.lightningAddress
        /\ apps = st.apps

\* the process has started: no goroutine is inside the service
InitProcess ==
    /\ tokenMutex = NoThread
    /\ now = 0
    /\ nextGrant = 1
    /\ pc = [t \in Threads |-> "idle"]
    /\ op = [t \in Threads |-> ""]
    /\ site = [t \in Threads |-> ""]
    /\ cur = [t \in Threads |-> NoCur]
    /\ newToken = [t \in Threads |-> NilToken]
    /\ token = [t \in Threads |-> NilToken]
    /\ ferr = [t \in Threads |-> FALSE]
    /\ me = [t \in Threads |-> NoMe]
    /\ existing = [t \in Threads |-> ""]
    /\ connKey = [t \in Threads |-> ""]
    /\ lerr = [t \in Threads |-> ""]
    /\ resp = [t \in Threads |-> NoResponse]
    /\ ev = [t \in Threads |-> NoEvent]
    /\ code = [t \in Threads |-> ""]
    /\ largs = [t \in Threads |-> NoArgs]
    /\ work = [t \in Threads |-> NoWork]
    /\ res = [t \in Threads |-> NoRes]
    /\ pre = [t \in Threads |-> NoPre]
    /\ fNow = [t \in Threads |-> 0]
    /\ nExch = [t \in Threads |-> 0]
    /\ nLink = [t \in Threads |-> 0]
    /\ sent = [t \in Threads |-> <<>>]
    /\ lastDone = ""
    /\ opsStarted = 0

InitCommon ==
    /\ InitStored(InitStores)
    /\ InitProcess
    /\ env \in [AutoLinkAlbyAccount : BOOLEAN, LogEvents : BOOLEAN]

\* operations that do not overlap
Init == InitCommon /\ serial = TRUE

\* What an UnlinkAccount that overlapped a CallbackHandler can leave in the
\* config store (neither takes tokenMutex for its writes): the access token of
\* the callback's token without its expiry, or without its refresh token.
TornStores ==
    {[NoPre EXCEPT !.accessToken = Grant(0, "user1", l).AccessToken,
                   !.refreshToken = Grant(0, "user1", l).RefreshToken,
                   !.userIdentifier = "user1"] : l \in Lifetimes}
    \cup
    {[NoPre EXCEPT !.accessToken = Grant(0, "user1", l).AccessToken,
                   !.expiry = FormatInt(l),
                   !.userIdentifier = "user1"] : l \in Lifetimes}

\* callers of fetchUserToken only: the environment settings are not read
InitGetToken ==
    /\ InitStored(InitStores \cup TornStores)
    /\ InitProcess
    /\ env = [AutoLinkAlbyAccount |-> FALSE, LogEvents |-> FALSE]
    /\ serial = FALSE

\* ------------------------------------------------------- calling, returning
\* a caller invokes public operation o, whose first step is p
Begin(t, o, p) ==
    /\ pc[t] = "idle"
    /\ serial => t = 1
    /\ opsStarted < MaxOps
    /\ opsStarted' = opsStarted + 1
    /\ op' = [op EXCEPT ![t] = o]
    /\ pc' = [pc EXCEPT ![t] = p]
    /\ pre' = [pre EXCEPT ![t] = Persisted]
    /\ UNCHANGED <<res, fNow, nExch, nLink, sent, lastDone, serial>>

\* the operation returns err to its caller
Return(t, err) ==
    /\ pc' = [pc EXCEPT ![t] = "done"]
    /\ res' = [res EXCEPT ![t].err = err]

\* the caller has the result; the goroutine is free for the next call
Finish(t) ==
    /\ pc[t] = "done"
    /\ pc' = [pc EXCEPT ![t] = "idle"]
    /\ lastDone' = IF op[t] = "CallbackHandler" THEN res[t].err
                   ELSE IF op[t] = "UnlinkAccount" THEN "unlinked" ELSE ""
    /\ op' = [op EXCEPT ![t] = ""]
    /\ res' = [res EXCEPT ![t] = NoRes]
    /\ pre' = [pre EXCEPT ![t] = NoPre]
    /\ fNow' = [fNow EXCEPT ![t] = 0]
    /\ nExch' = [nExch EXCEPT ![t] = 0]
    /\ nLink' = [nLink EXCEPT ![t] = 0]
    /\ sent' = [sent EXCEPT ![t] = <<>>]
    /\ token' = [token EXCEPT ![t] = NilToken]
    /\ ferr' = [ferr EXCEPT ![t] = FALSE]
    /\ me' = [me EXCEPT ![t] = NoMe]
    /\ existing' = [existing EXCEPT ![t] = ""]
    /\ connKey' = [connKey EXCEPT ![t] = ""]
    /\ lerr' = [lerr EXCEPT ![t] = ""]
    /\ resp' = [resp EXCEPT ![t] = NoResponse]
    /\ ev' = [ev EXCEPT ![t] = NoEvent]
    /\ code' = [code EXCEPT ![t] = ""]
    /\ largs' = [largs EXCEPT ![t] = NoArgs]
    /\ work' = [work EXCEPT ![t] = NoWork]
    /\ UNCHANGED <<cfgVars, globVars, site, cur, newToken, opsStarted, serial>>

\* time passes.  The program observes the clock in fetchUserToken's expiry
\* check only, so a second that passes anywhere else is taken to pass right
\* before the next check.
Tick ==
    /\ now < MaxTime
    /\ \E t \in Threads : pc[t] = "f_rt"
    /\ now' = now + 1
    /\ UNCHANGED <<cfgVars, env, apps, tokenMutex, nextGrant, pc, op, fetchVars, opVars, obsVars>>

\* ------------------------------------------------------- fetchUserToken
\* a call of fetchUserToken that returns to pc r
CallFetch(t, r) ==
    /\ pc' = [pc EXCEPT ![t] = "f_lock"]
    /\ site' = [site EXCEPT ![t] = r]

\* a return that unlocks on the success paths only
FetchReturnUnlocksOnSuccess(t, tok, err) ==
    /\ tokenMutex' = IF err THEN tokenMutex ELSE NoThread
    /\ token' = [token EXCEPT ![t] = tok]
    /\ ferr' = [ferr EXCEPT ![t] = err]
    /\ pc' = [pc EXCEPT ![t] = site[t]]
    /\ site' = [site EXCEPT ![t] = ""]
    /\ cur' = [cur EXCEPT ![t] = NoCur]
    /\ newToken' = [newToken EXCEPT ![t] = NilToken]

\* return tok, err; the deferred tokenMutex.Unlock() runs
FetchReturn(t, tok, err) ==
    /\ tokenMutex' = NoThread
    /\ token' = [token EXCEPT ![t] = tok]
    /\ ferr' = [ferr EXCEPT ![t] = err]
    /\ pc' = [pc EXCEPT ![t] = site[t]]
    /\ site' = [site EXCEPT ![t] = ""]
    /\ cur' = [cur EXCEPT ![t] = NoCur]
    /\ newToken' = [newToken EXCEPT ![t] = NilToken]

\* fetchUserToken without mutual exclusion: the lock is taken over
FetchLockNoExclusion(t) ==
    /\ pc[t] = "f_lock"
    /\ tokenMutex' = t
    /\ pc' = [pc EXCEPT ![t] = "f_at"]
    /\ UNCHANGED <<cfgVars, env, apps, now, nextGrant, op, fetchVars, opVars, obsVars>>

\* tokenMutex.Lock()
FetchLock(t) ==
    /\ pc[t] = "f_lock"
    /\ tokenMutex = NoThread
    /\ tokenMutex' = t
    /\ pc' = [pc EXCEPT ![t] = "f_at"]
    /\ UNCHANGED <<cfgVars, env, apps, now, nextGrant, op, fetchVars, opVars, obsVars>>

\* svc.cfg.Get(accessTokenKey, ""); nil, nil when it is empty
FetchReadAccessToken(t) ==
    /\ pc[t] = "f_at"
    /\ IF accessToken = EmptyStr
       THEN FetchReturn(t, NilToken, FALSE)
       ELSE /\ cur' = [cur EXCEPT ![t].accessToken = accessToken]
            /\ pc' = [pc EXCEPT ![t] = "f_exp"]
            /\ UNCHANGED <<tokenMutex, token, ferr, site, newToken>>
    /\ UNCHANGED <<cfgVars, env, apps, now, nextGrant, op, opVars, obsVars>>

\* svc.cfg.Get(accessTokenExpiryKey, ""); nil, nil when it is empty, an error
\* when strconv.ParseInt rejects it
FetchReadExpiry(t) ==
    /\ pc[t] = "f_exp"
    /\ IF accessTokenExpiry = EmptyStr
       THEN FetchReturn(t, NilToken, FALSE)
       ELSE IF ~ParseInt(accessTokenExpiry).ok
       THEN FetchReturn(t, NilToken, TRUE)
       ELSE /\ cur' = [cur EXCEPT ![t].expiry = accessTokenExpiry]
            /\ pc' = [pc EXCEPT ![t] = "f_rt"]
            /\ UNCHANGED <<tokenMutex, token, ferr, site, newToken>>
    /\ UNCHANGED <<cfgVars, env, apps, now, nextGrant, op, opVars, obsVars>>

\* svc.cfg.Get(refreshTokenKey, ""); nil, nil when it is empty.  Otherwise
\* currentToken is built and returned if it has more than 20 seconds left.
FetchReadRefreshToken(t) ==
    /\ pc[t] = "f_rt"
    /\ IF refreshToken = EmptyStr
       THEN /\ FetchReturn(t, NilToken, FALSE)
            /\ UNCHANGED fNow
       ELSE /\ fNow' = [fNow EXCEPT ![t] = now]
            /\ IF TokenStillUsable(ParseInt(cur[t].expiry).val, now)
               THEN FetchReturn(t, [AccessToken |-> cur[t].accessToken,
                                    RefreshToken |-> refreshToken,
                                    Expiry |-> ParseInt(cur[t].expiry).val], FALSE)
               ELSE /\ cur' = [cur EXCEPT ![t].refreshToken = refreshToken]
                    /\ pc' = [pc EXCEPT ![t] = "f_exchange"]
                    /\ UNCHANGED <<tokenMutex, token, ferr, site, newToken>>
    /\ UNCHANGED <<cfgVars, env, apps, now, nextGrant, op, opVars,
                   res, pre, nExch, nLink, sent, lastDone, opsStarted, serial>>

\* a failed refresh that removes the stale access token, as CallbackHandler does
FetchExchangeFailClears(t) ==
    /\ pc[t] = "f_exchange"
    /\ nExch' = [nExch EXCEPT ![t] = @ + 1]
    /\ sent' = [sent EXCEPT ![t] = Append(@, "oauth/token")]
    /\ accessToken' = EmptyStr
    /\ FetchReturn(t, NilToken, TRUE)
    /\ UNCHANGED <<accessTokenExpiry, refreshToken, userIdentifier, lightningAddress,
                   env, apps, now, nextGrant, op, opVars,
                   res, pre, fNow, nLink, lastDone, opsStarted, serial>>

\* svc.oauthConf.TokenSource(ctx, currentToken).Token() fails: the error is
\* returned and nothing is saved
FetchExchangeFail(t) ==
    /\ pc[t] = "f_exchange"
    /\ nExch' = [nExch EXCEPT ![t] = @ + 1]
    /\ sent' = [sent EXCEPT ![t] = Append(@, "oauth/token")]
    /\ FetchReturn(t, NilToken, TRUE)
    /\ UNCHANGED <<cfgVars, env, apps, now, nextGrant, op, opVars,
                   res, pre, fNow, nLink, lastDone, opsStarted, serial>>

\* the refresh-token exchange succeeds: the provider issues a new token for
\* the account of the refresh token, and saveToken is called with it
FetchExchangeOk(t) ==
    /\ pc[t] = "f_exchange"
    /\ nextGrant <= MaxGrants
    /\ nExch' = [nExch EXCEPT ![t] = @ + 1]
    /\ sent' = [sent EXCEPT ![t] = Append(@, "oauth/token")]
    /\ \E l \in Lifetimes :
          newToken' = [newToken EXCEPT ![t] = Grant(nextGrant, cur[t].refreshToken[3], now + l)]
    /\ nextGrant' = nextGrant + 1
    /\ pc' = [pc EXCEPT ![t] = "save_exp"]
    /\ UNCHANGED <<cfgVars, env, apps, tokenMutex, now, op, site, cur, token, ferr, opVars,
                   res, pre, fNow, nLink, lastDone, opsStarted, serial>>

\* ------------------------------------------------------------- saveToken
\* svc.cfg.SetUpdate(accessTokenExpiryKey, strconv.FormatInt(token.Expiry.Unix(), 10), "")
SaveExpiry(t) ==
    /\ pc[t] = "save_exp"
    /\ accessTokenExpiry' = FormatInt(newToken[t].Expiry)
    /\ pc' = [pc EXCEPT ![t] = "save_at"]
    /\ UNCHANGED <<accessToken, refreshToken, userIdentifier, lightningAddress,
                   globVars, op, fetchVars, opVars, obsVars>>

\* svc.cfg.SetUpdate(accessTokenKey, token.AccessToken, "")
SaveAccessToken(t) ==
    /\ pc[t] = "save_at"
    /\ accessToken' = newToken[t].AccessToken
    /\ pc' = [pc EXCEPT ![t] = "save_rt"]
    /\ UNCHANGED <<accessTokenExpiry, refreshToken, userIdentifier, lightningAddress,
                   globVars, op, fetchVars, opVars, obsVars>>

\* svc.cfg.SetUpdate(refreshTokenKey, token.RefreshToken, ""), and saveToken
\* returns: to fetchUserToken, which returns newToken, or to CallbackHandler,
\* which goes on to GetMe
SaveRefreshToken(t) ==
    /\ pc[t] = "save_rt"
    /\ refreshToken' = newToken[t].RefreshToken
    /\ IF site[t] # ""
       THEN FetchReturn(t, newToken[t], FALSE)
       ELSE /\ pc' = [pc EXCEPT ![t] = "cb_getme"]
            /\ newToken' = [newToken EXCEPT ![t] = NilToken]
            /\ UNCHANGED <<tokenMutex, token, ferr, site, cur>>
    /\ UNCHANGED <<accessToken, accessTokenExpiry, userIdentifier, lightningAddress,
                   env, apps, now, nextGrant, op, opVars, obsVars>>

\* ----------------------------------------------------------- IsConnected
\* the caller asks for the session: token, err := svc.fetchUserToken(ctx)
StartIsConnected(t) ==
    /\ Begin(t, "IsConnected", "f_lock")
    /\ site' = [site EXCEPT ![t] = "ic_ret"]
    /\ UNCHANGED <<cfgVars, globVars, cur, newToken, token, ferr, opVars>>

\* IsConnected that answers by the absence of an error
IsConnectedReturnByError(t) ==
    /\ pc[t] = "ic_ret"
    /\ pc' = [pc EXCEPT ![t] = "done"]
    /\ res' = [res EXCEPT ![t].err = IF ferr[t] THEN "token" ELSE "",
                           ![t].token = token[t],
                           ![t].connected = ~ferr[t]]
    /\ UNCHANGED <<cfgVars, globVars, op, fetchVars, opVars,
                   pre, fNow, nExch, nLink, sent, lastDone, opsStarted, serial>>

\* return token != nil (the error is logged)
IsConnectedReturn(t) ==
    /\ pc[t] = "ic_ret"
    /\ pc' = [pc EXCEPT ![t] = "done"]
    /\ res' = [res EXCEPT ![t].err = IF ferr[t] THEN "token" ELSE "",
                           ![t].token = token[t],
                           ![t].connected = token[t] # NilToken]
    /\ UNCHANGED <<cfgVars, globVars, op, fetchVars, opVars,
                   pre, fNow, nExch, nLink, sent, lastDone, opsStarted, serial>>

\* -------------------------------------------------------- CallbackHandler
\* the OAuth redirect arrives with the authorization code of account u
StartCallback(t) ==
    /\ Begin(t, "CallbackHandler", "cb_exchange")
    /\ \E u \in Users : code' = [code EXCEPT ![t] = u]
    /\ UNCHANGED <<cfgVars, globVars, fetchVars, me, existing, connKey, lerr, resp, ev, largs, work>>

\* svc.oauthConf.Exchange(ctx, code) fails: return err
CallbackExchangeFail(t) ==
    /\ pc[t] = "cb_exchange"
    /\ Return(t, "exchange")
    /\ sent' = [sent EXCEPT ![t] = Append(@, "oauth/token")]
    /\ UNCHANGED <<cfgVars, globVars, op, fetchVars, opVars, obsRest, nExch, nLink>>

\* the code is exchanged for a token of its account; svc.saveToken(token)
CallbackExchangeOk(t) ==
    /\ pc[t] = "cb_exchange"
    /\ nextGrant <= MaxGrants
    /\ \E l \in Lifetimes :
          newToken' = [newToken EXCEPT ![t] = Grant(nextGrant, code[t], now + l)]
    /\ nextGrant' = nextGrant + 1
    /\ sent' = [sent EXCEPT ![t] = Append(@, "oauth/token")]
    /\ pc' = [pc EXCEPT ![t] = "save_exp"]
    /\ UNCHANGED <<cfgVars, env, apps, tokenMutex, now, op, site, cur, token, ferr, opVars,
                   obsRest, res, nExch, nLink>>

\* me, err := svc.GetMe(ctx), which starts with svc.fetchUserToken(ctx)
CallbackGetMe(t) ==
    /\ pc[t] = "cb_getme"
    /\ CallFetch(t, "me_http")
    /\ UNCHANGED <<cfgVars, globVars, op, cur, newToken, token, ferr, opVars, obsVars>>

\* GetMe fails: fetchUserToken returned an error, or GET /internal/users
\* could not be sent (no token to authorize it), failed or did not decode
GetMeFail(t) ==
    /\ pc[t] = "me_http"
    /\ sent' = [sent EXCEPT ![t] = IF ferr[t] \/ token[t] = NilToken
                                   THEN @ ELSE Append(@, "internal/users")]
    /\ pc' = [pc EXCEPT ![t] = "cb_clear_me"]
    /\ UNCHANGED <<cfgVars, globVars, op, fetchVars, opVars, obsRest, res, nExch, nLink>>

\* GET /internal/users answers with the account of the bearer token;
\* svc.cfg.SetUpdate(lightningAddressKey, me.LightningAddress, "")
GetMeOk(t) ==
    /\ pc[t] = "me_http"
    /\ ~ferr[t] /\ token[t] # NilToken
    /\ sent' = [sent EXCEPT ![t] = Append(@, "internal/users")]
    /\ me' = [me EXCEPT ![t] = [Identifier |-> AccountOf(token[t]),
                                LightningAddress |-> AddressOf(AccountOf(token[t]))]]
    /\ lightningAddress' = AddressOf(AccountOf(token[t]))
    /\ pc' = [pc EXCEPT ![t] = "cb_getuid"]
    /\ UNCHANGED <<accessToken, accessTokenExpiry, refreshToken, userIdentifier,
                   globVars, op, fetchVars, existing, connKey, lerr, resp, ev, code, work, largs,
                   obsRest, res, nExch, nLink>>

\* GetMe failed: "remove token so user can retry", return err
CallbackClearAfterGetMe(t) ==
    /\ pc[t] = "cb_clear_me"
    /\ accessToken' = EmptyStr
    /\ Return(t, "getme")
    /\ UNCHANGED <<accessTokenExpiry, refreshToken, userIdentifier, lightningAddress,
                   globVars, op, fetchVars, opVars, obsRest, nExch, nLink, sent>>

\* a callback that never finds a stored account id
CallbackGetUserIdentifierEmpty(t) ==
    /\ pc[t] = "cb_getuid"
    /\ existing' = [existing EXCEPT ![t] = ""]
    /\ pc' = [pc EXCEPT ![t] = "cb_branch"]
    /\ UNCHANGED <<cfgVars, globVars, op, fetchVars, me, connKey, lerr, resp, ev, code, work, largs, obsVars>>

\* existingUserIdentifier, err := svc.GetUserIdentifier()
CallbackGetUserIdentifier(t) ==
    /\ pc[t] = "cb_getuid"
    /\ existing' = [existing EXCEPT ![t] = userIdentifier]
    /\ pc' = [pc EXCEPT ![t] = "cb_branch"]
    /\ UNCHANGED <<cfgVars, globVars, op, fetchVars, me, connKey, lerr, resp, ev, code, work, largs, obsVars>>

\* a first login that links the account whatever AutoLinkAlbyAccount says
CallbackFirstLoginAlwaysLinks(t) ==
    /\ pc[t] = "cb_branch"
    /\ existing[t] = ""
    /\ userIdentifier' = me[t].Identifier
    /\ pc' = [pc EXCEPT ![t] = "lk_delete"]
    /\ \E n \in NodeCaps :
          largs' = [largs EXCEPT ![t] = [budget |-> AutoLinkBudget,
                                         renewal |-> BUDGET_RENEWAL_MONTHLY,
                                         methods |-> n.methods,
                                         notifs |-> n.notifs]]
    /\ nLink' = [nLink EXCEPT ![t] = @ + 1]
    /\ UNCHANGED <<accessToken, accessTokenExpiry, refreshToken, lightningAddress,
                   globVars, op, fetchVars, me, existing, connKey, lerr, resp, ev, code, work,
                   obsRest, res, nExch, sent>>

\* first time login: save the account id, and link the account if
\* AutoLinkAlbyAccount is set (LinkAccount starts with deleteAlbyAccountApps)
CallbackFirstLogin(t) ==
    /\ pc[t] = "cb_branch"
    /\ existing[t] = ""
    /\ userIdentifier' = me[t].Identifier
    /\ IF env.AutoLinkAlbyAccount
       THEN /\ pc' = [pc EXCEPT ![t] = "lk_delete"]
            /\ \E n \in NodeCaps :
                  largs' = [largs EXCEPT ![t] = [budget |-> AutoLinkBudget,
                                                 renewal |-> BUDGET_RENEWAL_MONTHLY,
                                                 methods |-> n.methods,
                                                 notifs |-> n.notifs]]
            /\ nLink' = [nLink EXCEPT ![t] = @ + 1]
            /\ UNCHANGED res
       ELSE /\ Return(t, "")
            /\ UNCHANGED <<largs, nLink>>
    /\ UNCHANGED <<accessToken, accessTokenExpiry, refreshToken, lightningAddress,
                   globVars, op, fetchVars, me, existing, connKey, lerr, resp, ev, code, work,
                   obsRest, nExch, sent>>

\* a mismatch that returns the error and keeps the exchanged token
CallbackMismatchKeepsToken(t) ==
    /\ pc[t] = "cb_branch"
    /\ existing[t] # ""
    /\ me[t].Identifier # existing[t]
    /\ Return(t, "mismatch")
    /\ UNCHANGED <<cfgVars, globVars, op, fetchVars, opVars, obsRest, nExch, nLink, sent>>

\* the account differs from the stored one: "remove token so user can retry
\* with correct account", return the error
CallbackMismatch(t) ==
    /\ pc[t] = "cb_branch"
    /\ existing[t] # ""
    /\ me[t].Identifier # existing[t]
    /\ accessToken' = EmptyStr
    /\ Return(t, "mismatch")
    /\ UNCHANGED <<accessTokenExpiry, refreshToken, userIdentifier, lightningAddress,
                   globVars, op, fetchVars, opVars, obsRest, nExch, nLink, sent>>

\* a login with the stored account that links the account again
CallbackMatchRelinks(t) ==
    /\ pc[t] = "cb_branch"
    /\ existing[t] # ""
    /\ me[t].Identifier = existing[t]
    /\ pc' = [pc EXCEPT ![t] = "lk_delete"]
    /\ \E n \in NodeCaps :
          largs' = [largs EXCEPT ![t] = [budget |-> AutoLinkBudget,
                                         renewal |-> BUDGET_RENEWAL_MONTHLY,
                                         methods |-> n.methods,
                                         notifs |-> n.notifs]]
    /\ nLink' = [nLink EXCEPT ![t] = @ + 1]
    /\ UNCHANGED <<cfgVars, globVars, op, fetchVars, me, existing, connKey, lerr, resp, ev,
                   code, work, obsRest, res, nExch, sent>>

\* the account is the stored one: return nil
CallbackMatch(t) ==
    /\ pc[t] = "cb_branch"
    /\ existing[t] # ""
    /\ me[t].Identifier = existing[t]
    /\ Return(t, "")
    /\ UNCHANGED <<cfgVars, globVars, op, fetchVars, opVars, obsRest, nExch, nLink, sent>>

\* ------------------------------------------------------------ LinkAccount
StartLink(t) ==
    /\ Begin(t, "LinkAccount", "lk_delete")
    /\ \E a \in LinkArgs : largs' = [largs EXCEPT ![t] = a]
    /\ UNCHANGED <<cfgVars, globVars, fetchVars, me, existing, connKey, lerr, resp, ev, code, work>>

\* svc.deleteAlbyAccountApps(): the rows named getalby.com are deleted; then
\* createAlbyAccountNWCNode starts with svc.fetchUserToken(ctx)
LinkDeleteApps(t) ==
    /\ pc[t] = "lk_delete"
    /\ apps' = <<>>
    /\ CallFetch(t, "create_http")
    /\ UNCHANGED <<cfgVars, env, tokenMutex, now, nextGrant, op, cur, newToken, token, ferr,
                   opVars, obsVars>>

\* the DELETE statement fails: the error is logged and LinkAccount goes on
LinkDeleteAppsFail(t) ==
    /\ pc[t] = "lk_delete"
    /\ CallFetch(t, "create_http")
    /\ UNCHANGED <<cfgVars, globVars, op, cur, newToken, token, ferr, opVars, obsVars>>

\* POST /internal/nwcs could not be sent (fetchUserToken's error is only
\* logged, and without a token the client cannot authorize the request),
\* failed or answered with a non-success status: LinkAccount returns the error
CreateNodeFail(t) ==
    /\ pc[t] = "create_http"
    /\ sent' = [sent EXCEPT ![t] = IF ferr[t] \/ token[t] = NilToken
                                   THEN @ ELSE Append(@, "POST internal/nwcs")]
    /\ \E s \in IF ferr[t] \/ token[t] = NilToken
                THEN {NoResponse} ELSE {NoResponse} \cup Statuses :
          resp' = [resp EXCEPT ![t] = s]
    /\ lerr' = [lerr EXCEPT ![t] = "create"]
    /\ pc' = [pc EXCEPT ![t] = "lk_ret"]
    /\ UNCHANGED <<cfgVars, globVars, op, fetchVars, me, existing, connKey, ev, code, work, largs,
                   obsRest, res, nExch, nLink>>

\* POST /internal/nwcs answers with the connection pubkey
CreateNodeOk(t) ==
    /\ pc[t] = "create_http"
    /\ ~ferr[t] /\ token[t] # NilToken
    /\ sent' = [sent EXCEPT ![t] = Append(@, "POST internal/nwcs")]
    /\ \E s \in Statuses : s < FirstNonSuccess /\ resp' = [resp EXCEPT ![t] = s]
    /\ connKey' = [connKey EXCEPT ![t] = ConnKeyOf(AccountOf(token[t]))]
    /\ pc' = [pc EXCEPT ![t] = "lk_app"]
    /\ UNCHANGED <<cfgVars, globVars, op, fetchVars, me, existing, lerr, ev, code, work, largs,
                   obsRest, res, nExch, nLink>>

\* permissions.RequestMethodsToScopes or CreateApp fails: return the error
LinkCreateAppFail(t) ==
    /\ pc[t] = "lk_app"
    /\ \E e \in {"scopes", "createapp"} : lerr' = [lerr EXCEPT ![t] = e]
    /\ pc' = [pc EXCEPT ![t] = "lk_ret"]
    /\ UNCHANGED <<cfgVars, globVars, op, fetchVars, me, existing, connKey, resp, ev, code, work,
                   largs, obsVars>>

\* a LinkAccount that grants the notifications scope to every connection
LinkCreateAppAlwaysNotifies(t) ==
    /\ pc[t] = "lk_app"
    /\ apps' = Append(apps, AppRow(connKey[t], largs[t].budget, largs[t].renewal,
                                   RequestMethodsToScopes(largs[t].methods) \cup
                                   {NOTIFICATIONS_SCOPE}))
    /\ CallFetch(t, "activate_http")
    /\ UNCHANGED <<cfgVars, env, tokenMutex, now, nextGrant, op, cur, newToken, token, ferr,
                   opVars, obsVars>>

\* CreateApp(ALBY_ACCOUNT_APP_NAME, connectionPubkey, budget, renewal, ...)
\* inserts the row; then activateAlbyAccountNWCNode starts with fetchUserToken
LinkCreateApp(t) ==
    /\ pc[t] = "lk_app"
    /\ apps' = Append(apps, AppRow(connKey[t], largs[t].budget, largs[t].renewal,
                                   RequestMethodsToScopes(largs[t].methods) \cup
                                   (IF largs[t].notifs # {}
                                    THEN {NOTIFICATIONS_SCOPE} ELSE {})))
    /\ CallFetch(t, "activate_http")
    /\ UNCHANGED <<cfgVars, env, tokenMutex, now, nextGrant, op, cur, newToken, token, ferr,
                   opVars, obsVars>>

\* a failed activation that removes the connection record again
ActivateNodeFailRollsBack(t) ==
    /\ pc[t] = "activate_http"
    /\ sent' = [sent EXCEPT ![t] = IF ferr[t] \/ token[t] = NilToken
                                   THEN @ ELSE Append(@, "PUT internal/nwcs/activate")]
    /\ \E s \in IF ferr[t] \/ token[t] = NilToken
                THEN {NoResponse} ELSE {NoResponse} \cup {x \in Statuses : x >= FirstNonSuccess} :
          resp' = [resp EXCEPT ![t] = s]
    /\ lerr' = [lerr EXCEPT ![t] = "activate"]
    /\ apps' = <<>>
    /\ pc' = [pc EXCEPT ![t] = "lk_ret"]
    /\ UNCHANGED <<cfgVars, env, tokenMutex, now, nextGrant, op, fetchVars, me, existing,
                   connKey, ev, code, work, largs, obsRest, res, nExch, nLink>>

\* PUT /internal/nwcs/activate could not be sent, failed or answered with a
\* non-success status
ActivateNodeFail(t) ==
    /\ pc[t] = "activate_http"
    /\ sent' = [sent EXCEPT ![t] = IF ferr[t] \/ token[t] = NilToken
                                   THEN @ ELSE Append(@, "PUT internal/nwcs/activate")]
    /\ \E s \in IF ferr[t] \/ token[t] = NilToken
                THEN {NoResponse} ELSE {NoResponse} \cup {x \in Statuses : x >= FirstNonSuccess} :
          resp' = [resp EXCEPT ![t] = s]
    /\ lerr' = [lerr EXCEPT ![t] = "activate"]
    /\ pc' = [pc EXCEPT ![t] = "lk_ret"]
    /\ UNCHANGED <<cfgVars, globVars, op, fetchVars, me, existing, connKey, ev, code, work, largs,
                   obsRest, res, nExch, nLink>>

ActivateNodeOk(t) ==
    /\ pc[t] = "activate_http"
    /\ ~ferr[t] /\ token[t] # NilToken
    /\ sent' = [sent EXCEPT ![t] = Append(@, "PUT internal/nwcs/activate")]
    /\ \E s \in Statuses : s < FirstNonSuccess /\ resp' = [resp EXCEPT ![t] = s]
    /\ lerr' = [lerr EXCEPT ![t] = ""]
    /\ pc' = [pc EXCEPT ![t] = "lk_ret"]
    /\ UNCHANGED <<cfgVars, globVars, op, fetchVars, me, existing, connKey, ev, code, work, largs,
                   obsRest, res, nExch, nLink>>

\* a LinkAccount whose error every caller returns, CallbackHandler too
LinkReturnPropagates(t) ==
    /\ pc[t] = "lk_ret"
    /\ pc' = [pc EXCEPT ![t] = "done"]
    /\ res' = [res EXCEPT ![t].err = lerr[t], ![t].linkErr = lerr[t]]
    /\ UNCHANGED <<cfgVars, globVars, op, fetchVars, opVars, obsRest, nExch, nLink, sent>>

\* LinkAccount returns: its caller gets the error, except that
\* CallbackHandler only logs it and returns nil
LinkReturn(t) ==
    /\ pc[t] = "lk_ret"
    /\ pc' = [pc EXCEPT ![t] = "done"]
    /\ res' = [res EXCEPT ![t].err = IF op[t] = "CallbackHandler" THEN "" ELSE lerr[t],
                          ![t].linkErr = lerr[t]]
    /\ UNCHANGED <<cfgVars, globVars, op, fetchVars, opVars, obsRest, nExch, nLink, sent>>

\* ---------------------------------------------------------- UnlinkAccount
\* destroyAlbyAccountNWCNode starts with svc.fetchUserToken(ctx)
StartUnlink(t) ==
    /\ Begin(t, "UnlinkAccount", "f_lock")
    /\ site' = [site EXCEPT ![t] = "destroy_http"]
    /\ UNCHANGED <<cfgVars, globVars, cur, newToken, token, ferr, opVars>>

\* an UnlinkAccount that returns the error of a failed destroy request
UnlinkDestroyNodeFatal(t) ==
    /\ pc[t] = "destroy_http"
    /\ sent' = [sent EXCEPT ![t] = IF ferr[t] \/ token[t] = NilToken
                                   THEN @ ELSE Append(@, "DELETE internal/nwcs")]
    /\ \E s \in IF ferr[t] \/ token[t] = NilToken
                THEN {NoResponse} ELSE {NoResponse} \cup Statuses :
          /\ resp' = [resp EXCEPT ![t] = s]
          /\ lerr' = [lerr EXCEPT ![t] = IF s = NoResponse \/ s >= FirstNonSuccess
                                         THEN "destroy" ELSE ""]
          /\ IF s = NoResponse \/ s >= FirstNonSuccess
             THEN Return(t, "destroy")
             ELSE pc' = [pc EXCEPT ![t] = "ul_delete"] /\ UNCHANGED res
    /\ UNCHANGED <<cfgVars, globVars, op, fetchVars, me, existing, connKey, ev, code, work, largs,
                   obsRest, nExch, nLink>>

\* DELETE /internal/nwcs: whatever comes of it, the error is only logged
UnlinkDestroyNode(t) ==
    /\ pc[t] = "destroy_http"
    /\ sent' = [sent EXCEPT ![t] = IF ferr[t] \/ token[t] = NilToken
                                   THEN @ ELSE Append(@, "DELETE internal/nwcs")]
    /\ \E s \in IF ferr[t] \/ token[t] = NilToken
                THEN {NoResponse} ELSE {NoResponse} \cup Statuses :
          /\ resp' = [resp EXCEPT ![t] = s]
          /\ lerr' = [lerr EXCEPT ![t] = IF s = NoResponse \/ s >= FirstNonSuccess
                                         THEN "destroy" ELSE ""]
    /\ pc' = [pc EXCEPT ![t] = "ul_delete"]
    /\ UNCHANGED <<cfgVars, globVars, op, fetchVars, me, existing, connKey, ev, code, work, largs,
                   obsRest, res, nExch, nLink>>

\* svc.deleteAlbyAccountApps()
UnlinkDeleteApps(t) ==
    /\ pc[t] = "ul_delete"
    /\ apps' = <<>>
    /\ pc' = [pc EXCEPT ![t] = "ul_uid"]
    /\ UNCHANGED <<cfgVars, env, tokenMutex, now, nextGrant, op, fetchVars, opVars, obsVars>>

\* the DELETE statement fails: the error is logged
UnlinkDeleteAppsFail(t) ==
    /\ pc[t] = "ul_delete"
    /\ pc' = [pc EXCEPT ![t] = "ul_uid"]
    /\ UNCHANGED <<cfgVars, globVars, op, fetchVars, opVars, obsVars>>

\* svc.cfg.SetUpdate(userIdentifierKey, "", "")
UnlinkClearUserIdentifier(t) ==
    /\ pc[t] = "ul_uid"
    /\ userIdentifier' = ""
    /\ pc' = [pc EXCEPT ![t] = "ul_at"]
    /\ UNCHANGED <<accessToken, accessTokenExpiry, refreshToken, lightningAddress,
                   globVars, op, fetchVars, opVars, obsVars>>

\* svc.cfg.SetUpdate(accessTokenKey, "", "")
UnlinkClearAccessToken(t) ==
    /\ pc[t] = "ul_at"
    /\ accessToken' = EmptyStr
    /\ pc' = [pc EXCEPT ![t] = "ul_exp"]
    /\ UNCHANGED <<accessTokenExpiry, refreshToken, userIdentifier, lightningAddress,
                   globVars, op, fetchVars, opVars, obsVars>>

\* svc.cfg.SetUpdate(accessTokenExpiryKey, "", "")
UnlinkClearExpiry(t) ==
    /\ pc[t] = "ul_exp"
    /\ accessTokenExpiry' = EmptyStr
    /\ pc' = [pc EXCEPT ![t] = "ul_rt"]
    /\ UNCHANGED <<accessToken, refreshToken, userIdentifier, lightningAddress,
                   globVars, op, fetchVars, opVars, obsVars>>

\* svc.cfg.SetUpdate(refreshTokenKey, "", "")
UnlinkClearRefreshToken(t) ==
    /\ pc[t] = "ul_rt"
    /\ refreshToken' = EmptyStr
    /\ pc' = [pc EXCEPT ![t] = "ul_addr"]
    /\ UNCHANGED <<accessToken, accessTokenExpiry, userIdentifier, lightningAddress,
                   globVars, op, fetchVars, opVars, obsVars>>

\* svc.cfg.SetUpdate(lightningAddressKey, "", ""); return nil
UnlinkClearLightningAddress(t) ==
    /\ pc[t] = "ul_addr"
    /\ lightningAddress' = ""
    /\ Return(t, "")
    /\ UNCHANGED <<accessToken, accessTokenExpiry, refreshToken, userIdentifier,
                   globVars, op, fetchVars, opVars, obsRest, nExch, nLink, sent>>

\* ------------------------------------------------------------ ConsumeEvent
\* a panic unwinds to the caller
ConsumeEventNoRecover(panic) == IF panic THEN "panic" ELSE ""

\* the deferred function: recover() stops a panic, the failure is logged and
\* ConsumeEvent returns
ConsumeEventRecover(panic) == IF panic THEN "recovered" ELSE ""

\* the event bus delivers an event of the set E
ConsumeEventCall(t, E) ==
    /\ Begin(t, "ConsumeEvent", "ce_at")
    /\ \E e \in E : ev' = [ev EXCEPT ![t] = e]
    /\ UNCHANGED <<cfgVars, globVars, fetchVars, me, existing, connKey, lerr, resp, code, largs, work>>

StartConsumeEvent(t) == ConsumeEventCall(t, Events)

StartRelay(t) == ConsumeEventCall(t, RelayEvents)

\* svc.cfg.Get(accessTokenKey, "") and the filters that follow it: the read
\* fails, no token, LogEvents off, the backup event, internal events, and the
\* rewriting of the payment events
ConsumeEventFilter(t) ==
    /\ pc[t] = "ce_at"
    /\ \/ /\ pc' = [pc EXCEPT ![t] = "done"]
          /\ res' = [res EXCEPT ![t].note = "config failed"]
          /\ UNCHANGED site
       \/ IF accessToken = EmptyStr
          THEN /\ pc' = [pc EXCEPT ![t] = "done"]
               /\ res' = [res EXCEPT ![t].note = "no token"]
               /\ UNCHANGED site
          ELSE IF ~env.LogEvents
          THEN /\ pc' = [pc EXCEPT ![t] = "done"]
               /\ res' = [res EXCEPT ![t].note = "disabled"]
               /\ UNCHANGED site
          ELSE IF ev[t].Event = "nwc_backup_channels"
          THEN IF ev[t].kind = "backup"
               THEN /\ CallFetch(t, "bk_http")
                    /\ res' = [res EXCEPT ![t].uploads = @ + 1]
               ELSE /\ pc' = [pc EXCEPT ![t] = "done"]
                    /\ res' = [res EXCEPT ![t].uploads = @ + 1,
                                          ![t].note = "backup failed", ![t].berr = "cast"]
                    /\ UNCHANGED site
          ELSE IF IsLNClientEvent(ev[t].Event)
          THEN /\ pc' = [pc EXCEPT ![t] = "done"]
               /\ res' = [res EXCEPT ![t].note = "internal"]
               /\ UNCHANGED site
          ELSE IF RewriteEvent(ev[t]).outcome = "panic"
          THEN /\ pc' = [pc EXCEPT ![t] = "done"]
               /\ res' = [res EXCEPT ![t].note = ConsumeEventRecover(TRUE)]
               /\ UNCHANGED site
          ELSE IF RewriteEvent(ev[t]).outcome = "cast failed"
          THEN /\ pc' = [pc EXCEPT ![t] = "done"]
               /\ res' = [res EXCEPT ![t].note = "cast failed"]
               /\ UNCHANGED site
          ELSE /\ CallFetch(t, "ce_http")
               /\ UNCHANGED res
    /\ UNCHANGED <<cfgVars, globVars, op, cur, newToken, token, ferr, opVars,
                   obsRest, nExch, nLink, sent>>

\* an event that was answered with a non-success status is posted again
ConsumeEventPostRetries(t) ==
    /\ pc[t] = "ce_http"
    /\ pc' = [pc EXCEPT ![t] = "done"]
    /\ LET b == EventBody(RewriteEvent(ev[t]).event)
       IN  IF ferr[t] \/ b.err # "" \/ token[t] = NilToken
           THEN /\ res' = [res EXCEPT ![t].note = "post failed"]
                /\ UNCHANGED sent
           ELSE \E o \in {"status", "posted"} :
                   /\ res' = [res EXCEPT ![t].note = o, ![t].posted = b.body]
                   /\ sent' = [sent EXCEPT ![t] =
                                  IF o = "posted" THEN Append(@, "POST events")
                                  ELSE @ \o <<"POST events", "POST events">>]
    /\ UNCHANGED <<cfgVars, globVars, op, fetchVars, opVars, obsRest, nExch, nLink>>

\* fetchUserToken returned: on its error return; otherwise the event is
\* encoded, decoded into a map, merged with the global properties, encoded
\* again and POSTed to /events; every failure is logged
ConsumeEventPost(t) ==
    /\ pc[t] = "ce_http"
    /\ pc' = [pc EXCEPT ![t] = "done"]
    /\ LET b == EventBody(RewriteEvent(ev[t]).event)
       IN  IF ferr[t]
           THEN /\ res' = [res EXCEPT ![t].note = "token failed"]
                /\ UNCHANGED sent
           ELSE IF b.err # ""
           THEN /\ res' = [res EXCEPT ![t].note = b.err]
                /\ UNCHANGED sent
           ELSE IF token[t] = NilToken
           THEN /\ res' = [res EXCEPT ![t].note = "post failed"]
                /\ UNCHANGED sent
           ELSE /\ \E o \in {"post failed", "status", "posted"} :
                      res' = [res EXCEPT ![t].note = o, ![t].posted = b.body]
                /\ sent' = [sent EXCEPT ![t] = Append(@, "POST events")]
    /\ UNCHANGED <<cfgVars, globVars, op, fetchVars, opVars, obsRest, nExch, nLink>>

\* a failed upload is sent a second time
BackupUploadRetries(t) ==
    /\ pc[t] = "bk_http"
    /\ pc' = [pc EXCEPT ![t] = "done"]
    /\ IF ferr[t] \/ token[t] = NilToken
       THEN /\ res' = [res EXCEPT ![t].note = "backup failed", ![t].berr = "token"]
            /\ UNCHANGED sent
       ELSE \E o \in {"transport", "status", ""} :
               /\ res' = [res EXCEPT ![t].note = IF o = "" THEN "backup done" ELSE "backup failed",
                                     ![t].berr = o]
               /\ sent' = [sent EXCEPT ![t] =
                              IF o = "" THEN Append(@, "POST internal/backups")
                              ELSE @ \o <<"POST internal/backups", "POST internal/backups">>]
    /\ UNCHANGED <<cfgVars, globVars, op, fetchVars, opVars, obsRest, nExch, nLink>>

\* backupChannels after its type assertion: fetchUserToken's error is
\* returned; the channels are encoded, the encryption key is read from the
\* config store, the data is encrypted, and the result is POSTed to
\* /internal/backups once; the error of the step that failed is returned to
\* ConsumeEvent, which logs it
BackupUpload(t) ==
    /\ pc[t] = "bk_http"
    /\ pc' = [pc EXCEPT ![t] = "done"]
    /\ IF ferr[t]
       THEN /\ res' = [res EXCEPT ![t].note = "backup failed", ![t].berr = "token"]
            /\ UNCHANGED sent
       ELSE \/ /\ \E o \in {"encode", "key", "encrypt"} :
                     res' = [res EXCEPT ![t].note = "backup failed", ![t].berr = o]
               /\ UNCHANGED sent
            \/ /\ token[t] = NilToken
               /\ res' = [res EXCEPT ![t].note = "backup failed", ![t].berr = "transport"]
               /\ UNCHANGED sent
            \/ /\ token[t] # NilToken
               /\ \E o \in {"transport", "status", ""} :
                     res' = [res EXCEPT ![t].note = IF o = "" THEN "backup done"
                                                     ELSE "backup failed",
                                       ![t].berr = o]
               /\ sent' = [sent EXCEPT ![t] = Append(@, "POST internal/backups")]
    /\ UNCHANGED <<cfgVars, globVars, op, fetchVars, opVars, obsRest, nExch, nLink>>

\* ------------------------------------------------------ RequestAutoChannel
otherOps == <<me, existing, connKey, lerr, resp, ev, code, largs>>

\* the pubkeys lnClient.GetInfo reports for the local node
NodePubkeys == {"node1", "node2"}

StartRequestAutoChannel(t) ==
    /\ Begin(t, "RequestAutoChannel", "ac_info")
    /\ UNCHANGED <<cfgVars, globVars, fetchVars, opVars>>

\* lnClient.GetInfo(ctx): its error is returned; otherwise getLSPInfo is
\* called, which starts with fetchUserToken
AutoChannelGetInfo(t) ==
    /\ pc[t] = "ac_info"
    /\ \/ /\ Return(t, "Failed to request own node info")
          /\ UNCHANGED <<site, work>>
       \/ /\ \E k \in NodePubkeys : work' = [work EXCEPT ![t].nodePubkey = k]
          /\ CallFetch(t, "ac_lsp")
          /\ UNCHANGED res
    /\ UNCHANGED <<cfgVars, globVars, op, cur, newToken, token, ferr, otherOps,
                   obsRest, nExch, nLink, sent>>

\* getLSPInfo after fetchUserToken, whose error is only logged: GET
\* .../v1/get_info is sent if there is a token; a transport, read or JSON
\* error is returned; the status is not looked at; the URIs are parsed
GetLSPInfo(t) ==
    /\ pc[t] = "ac_lsp"
    /\ IF ferr[t] \/ token[t] = NilToken
       THEN /\ Return(t, "Failed to request lsp info")
            /\ UNCHANGED <<sent, work>>
       ELSE /\ sent' = [sent EXCEPT ![t] = Append(@, "GET lsp/get_info")]
            /\ \/ /\ \E e \in {"Failed to request lsp info", "failed to read response body",
                               "failed to deserialize json"} : Return(t, e)
                  /\ UNCHANGED work
               \/ \E uris \in URILists :
                     LET r == GetLSPInfoParse(uris)
                     IN  /\ work' = [work EXCEPT ![t].answered = TRUE, ![t].uris = uris,
                                                 ![t].peer = r.peer]
                         /\ IF r.err # ""
                            THEN Return(t, r.err)
                            ELSE /\ pc' = [pc EXCEPT ![t] = "ac_connect"]
                                 /\ UNCHANGED res
    /\ UNCHANGED <<cfgVars, globVars, op, fetchVars, otherOps, obsRest, nExch, nLink>>

\* lnClient.ConnectPeer(pubkey, address, port): its error is returned;
\* otherwise requestAutoChannel is called, which starts with fetchUserToken
AutoChannelConnectPeer(t) ==
    /\ pc[t] = "ac_connect"
    /\ \/ /\ work' = [work EXCEPT ![t].connects =
                         Append(@, [peer |-> work[t].peer, ok |-> FALSE])]
          /\ Return(t, "Failed to connect to peer")
          /\ UNCHANGED site
       \/ /\ work' = [work EXCEPT ![t].connects =
                         Append(@, [peer |-> work[t].peer, ok |-> TRUE])]
          /\ CallFetch(t, "ac_req")
          /\ UNCHANGED res
    /\ UNCHANGED <<cfgVars, globVars, op, cur, newToken, token, ferr, otherOps,
                   obsRest, nExch, nLink, sent>>

\* requestAutoChannel after fetchUserToken, whose error is only logged: POST
\* .../auto_channel {node_pubkey, announce_channel} is sent if there is a
\* token; a transport or read error, a non-success status and a JSON error
\* are returned; otherwise the answer is validated
RequestAutoChannelPost(t) ==
    /\ pc[t] = "ac_req"
    /\ IF ferr[t] \/ token[t] = NilToken
       THEN /\ Return(t, "Failed to request auto channel invoice")
            /\ UNCHANGED <<sent, work>>
       ELSE /\ sent' = [sent EXCEPT ![t] = Append(@, "POST lsp/auto_channel")]
            /\ \/ /\ \E e \in {"Failed to request auto channel invoice",
                               "failed to read response body",
                               "auto channel endpoint returned non-success code",
                               "failed to deserialize json"} : Return(t, e)
                  /\ work' = [work EXCEPT ![t].requests =
                                Append(@, [node_pubkey |-> work[t].nodePubkey])]
               \/ \E b \in AutoChannelBodies :
                     LET r == ParseAutoChannelResponse(b)
                     IN  /\ work' = [work EXCEPT
                                ![t].requests = Append(@, [node_pubkey |-> work[t].nodePubkey]),
                                ![t].body = b, ![t].result = r.result]
                         /\ Return(t, r.err)
    /\ UNCHANGED <<cfgVars, globVars, op, fetchVars, otherOps, obsRest, nExch, nLink>>

\* ------------------------------------------------------- DrainSharedWallet
\* the messages of the provider's error payload
PayMessages == {"insufficient balance"}

\* GetBalance starts with fetchUserToken
StartDrain(t) ==
    /\ Begin(t, "DrainSharedWallet", "f_lock")
    /\ site' = [site EXCEPT ![t] = "dr_balance"]
    /\ UNCHANGED <<cfgVars, globVars, cur, newToken, token, ferr, opVars>>

\* GetBalance after fetchUserToken (its error is returned): GET
\* /internal/lndhub/balance; then amountSat is computed and checked
DrainGetBalance(t) ==
    /\ pc[t] = "dr_balance"
    /\ IF ferr[t]
       THEN /\ Return(t, "Failed to fetch user token")
            /\ UNCHANGED <<sent, work>>
       ELSE IF token[t] = NilToken
       THEN /\ Return(t, "Failed to fetch balance endpoint")
            /\ UNCHANGED <<sent, work>>
       ELSE /\ sent' = [sent EXCEPT ![t] = Append(@, "GET internal/lndhub/balance")]
            /\ \/ /\ \E e \in {"Failed to fetch balance endpoint",
                               "Failed to decode API response"} : Return(t, e)
                  /\ UNCHANGED work
               \/ \E b \in Balances, fused \in BOOLEAN :
                     /\ work' = [work EXCEPT ![t].balanceRead = TRUE, ![t].balance = b,
                                              ![t].amountSat = DrainAmountSat(b, fused)]
                     /\ IF NotEnoughBalance(DrainAmountSat(b, fused))
                        THEN Return(t, "Not enough balance remaining")
                        ELSE /\ pc' = [pc EXCEPT ![t] = "dr_invoice"]
                             /\ UNCHANGED res
    /\ UNCHANGED <<cfgVars, globVars, op, fetchVars, otherOps, obsRest, nExch, nLink>>

\* MakeInvoice(ctx, amount, ...) on the local node for amountSat * 1000: its
\* error is returned; otherwise SendPayment is called, which starts with
\* fetchUserToken
DrainMakeInvoice(t) ==
    /\ pc[t] = "dr_invoice"
    /\ work' = [work EXCEPT ![t].invoices =
                   Append(@, DrainAmount(work[t].amountSat))]
    /\ \/ /\ Return(t, "Failed to make invoice")
          /\ UNCHANGED site
       \/ /\ CallFetch(t, "dr_pay")
          /\ UNCHANGED res
    /\ UNCHANGED <<cfgVars, globVars, op, cur, newToken, token, ferr, otherOps,
                   obsRest, nExch, nLink, sent>>

\* SendPayment after fetchUserToken (its error is returned): POST
\* /internal/lndhub/bolt11 {invoice}; a transport error is returned; on a
\* non-success status the error payload is decoded and its message returned;
\* a body that does not decode is an error
DrainSendPayment(t) ==
    /\ pc[t] = "dr_pay"
    /\ IF ferr[t]
       THEN /\ Return(t, "Failed to fetch user token")
            /\ UNCHANGED <<sent, work, resp>>
       ELSE IF token[t] = NilToken
       THEN /\ Return(t, "Failed to pay invoice")
            /\ UNCHANGED <<sent, work, resp>>
       ELSE /\ sent' = [sent EXCEPT ![t] = Append(@, "POST internal/lndhub/bolt11")]
            /\ work' = [work EXCEPT ![t].paid = Append(@, work[t].invoices[Len(work[t].invoices)])]
            /\ \/ /\ Return(t, "Failed to pay invoice")
                  /\ UNCHANGED resp
               \/ \E s \in Statuses :
                     /\ resp' = [resp EXCEPT ![t] = s]
                     /\ \/ Return(t, "Failed to decode payload")
                        \/ IF s >= FirstNonSuccess
                           THEN \E m \in PayMessages : Return(t, m)
                           ELSE Return(t, "")
    /\ UNCHANGED <<cfgVars, globVars, op, fetchVars, me, existing, connKey, lerr, ev, code,
                   largs, obsRest, nExch, nLink>>

\* ------------------------------------------------------------------- Next
Next ==
    \/ Tick
    \/ \E t \in Threads :
        \/ StartIsConnected(t) \/ IsConnectedReturn(t) \/ Finish(t)
        \/ FetchLock(t) \/ FetchReadAccessToken(t) \/ FetchReadExpiry(t)
        \/ FetchReadRefreshToken(t) \/ FetchExchangeFail(t) \/ FetchExchangeOk(t)
        \/ SaveExpiry(t) \/ SaveAccessToken(t) \/ SaveRefreshToken(t)
        \/ StartCallback(t) \/ CallbackExchangeFail(t) \/ CallbackExchangeOk(t)
        \/ CallbackGetMe(t) \/ GetMeFail(t) \/ GetMeOk(t) \/ CallbackClearAfterGetMe(t)
        \/ CallbackGetUserIdentifier(t) \/ CallbackFirstLogin(t)
        \/ CallbackMismatch(t) \/ CallbackMatch(t)
        \/ StartLink(t) \/ LinkDeleteApps(t) \/ LinkDeleteAppsFail(t)
        \/ CreateNodeFail(t) \/ CreateNodeOk(t) \/ LinkCreateAppFail(t) \/ LinkCreateApp(t)
        \/ ActivateNodeFail(t) \/ ActivateNodeOk(t) \/ LinkReturn(t)
        \/ StartUnlink(t) \/ UnlinkDestroyNode(t) \/ UnlinkDeleteApps(t)
        \/ UnlinkDeleteAppsFail(t) \/ UnlinkClearUserIdentifier(t)
        \/ UnlinkClearAccessToken(t) \/ UnlinkClearExpiry(t)
        \/ UnlinkClearRefreshToken(t) \/ UnlinkClearLightningAddress(t)
        \/ StartConsumeEvent(t) \/ ConsumeEventFilter(t) \/ ConsumeEventPost(t)
        \/ BackupUpload(t)

\* operations called one after the other
Spec == Init /\ [][Next]_vars

\* NThreads goroutines that ask for the token concurrently
NextGetToken ==
    \/ Tick
    \/ \E t \in Threads :
        \/ StartIsConnected(t) \/ IsConnectedReturn(t) \/ Finish(t)
        \/ FetchLock(t) \/ FetchReadAccessToken(t) \/ FetchReadExpiry(t)
        \/ FetchReadRefreshToken(t) \/ FetchExchangeFail(t) \/ FetchExchangeOk(t)
        \/ SaveExpiry(t) \/ SaveAccessToken(t) \/ SaveRefreshToken(t)

SpecGetToken == InitGetToken /\ [][NextGetToken]_vars

\* a character of a stored expiry that is not a digit
NotADigit == 10

\* a config store whose expiry does not parse
CorruptStores ==
    {[accessToken |-> Grant(0, "user1", l).AccessToken,
      expiry |-> <<NotADigit>>,
      refreshToken |-> Grant(0, "user1", l).RefreshToken,
      userIdentifier |-> "user1",
      lightningAddress |-> AddressOf("user1"),
      apps |-> <<>>] : l \in {TokenBuffer + 1}}

\* svc.cfg.Get returns an error for one of the three keys: fetchUserToken
\* returns it
FetchConfigError(t) ==
    /\ pc[t] \in {"f_at", "f_exp", "f_rt"}
    /\ FetchReturn(t, NilToken, TRUE)
    /\ UNCHANGED <<cfgVars, env, apps, now, nextGrant, op, opVars, obsVars>>

InitGetTokenLive ==
    /\ InitStored(InitStores \cup TornStores \cup CorruptStores)
    /\ InitProcess
    /\ env = [AutoLinkAlbyAccount |-> FALSE, LogEvents |-> FALSE]
    /\ serial = FALSE

NextGetTokenLive ==
    \/ NextGetToken
    \/ \E t \in Threads : FetchConfigError(t)

\* the steps of goroutine t that do not wait for anything: the reads and
\* writes of the config store, the refresh exchange (which returns) and the
\* returns
GetTokenStep(t) ==
    \/ FetchReadAccessToken(t) \/ FetchReadExpiry(t) \/ FetchReadRefreshToken(t)
    \/ FetchExchangeFail(t) \/ FetchExchangeOk(t)
    \/ SaveExpiry(t) \/ SaveAccessToken(t) \/ SaveRefreshToken(t)
    \/ IsConnectedReturn(t)

\* a goroutine that can take a step takes one; sync.Mutex hands the lock to
\* a goroutine that keeps waiting for it
SpecGetTokenLive ==
    /\ InitGetTokenLive
    /\ [][NextGetTokenLive]_vars
    /\ \A t \in Threads : WF_vars(GetTokenStep(t)) /\ SF_vars(FetchLock(t))

\* HandleCallback, Unlink and IsConnected requests served concurrently, with
\* auto-link turned off
InitSession ==
    /\ InitStored(InitStores)
    /\ InitProcess
    /\ env = [AutoLinkAlbyAccount |-> FALSE, LogEvents |-> FALSE]
    /\ serial = FALSE

NextSession ==
    \/ Tick
    \/ \E t \in Threads :
        \/ StartIsConnected(t) \/ IsConnectedReturn(t) \/ Finish(t)
        \/ FetchLock(t) \/ FetchReadAccessToken(t) \/ FetchReadExpiry(t)
        \/ FetchReadRefreshToken(t) \/ FetchExchangeFail(t) \/ FetchExchangeOk(t)
        \/ SaveExpiry(t) \/ SaveAccessToken(t) \/ SaveRefreshToken(t)
        \/ StartCallback(t) \/ CallbackExchangeFail(t) \/ CallbackExchangeOk(t)
        \/ CallbackGetMe(t) \/ GetMeFail(t) \/ GetMeOk(t) \/ CallbackClearAfterGetMe(t)
        \/ CallbackGetUserIdentifier(t) \/ CallbackFirstLogin(t)
        \/ CallbackMismatch(t) \/ CallbackMatch(t)
        \/ StartUnlink(t) \/ UnlinkDestroyNode(t) \/ UnlinkDeleteApps(t)
        \/ UnlinkDeleteAppsFail(t) \/ UnlinkClearUserIdentifier(t)
        \/ UnlinkClearAccessToken(t) \/ UnlinkClearExpiry(t)
        \/ UnlinkClearRefreshToken(t) \/ UnlinkClearLightningAddress(t)

SpecSession == InitSession /\ [][NextSession]_vars

\* the event bus delivers events one after the other; the config store may
\* hold what an earlier run left, a torn session included
InitRelay ==
    /\ InitStored(InitStores \cup TornStores)
    /\ InitProcess
    /\ env \in [AutoLinkAlbyAccount : {FALSE}, LogEvents : BOOLEAN]
    /\ serial = TRUE

NextRelay ==
    \/ Tick
    \/ \E t \in Threads :
        \/ StartRelay(t) \/ ConsumeEventFilter(t) \/ ConsumeEventPost(t)
        \/ BackupUpload(t) \/ Finish(t)
        \/ FetchLock(t) \/ FetchReadAccessToken(t) \/ FetchReadExpiry(t)
        \/ FetchReadRefreshToken(t) \/ FetchExchangeFail(t) \/ FetchExchangeOk(t)
        \/ SaveExpiry(t) \/ SaveAccessToken(t) \/ SaveRefreshToken(t)

SpecRelay == InitRelay /\ [][NextRelay]_vars

\* RequestAutoChannel called on a fresh or a linked hub
InitAutoChannel ==
    /\ InitStored(InitStores)
    /\ InitProcess
    /\ env = [AutoLinkAlbyAccount |-> FALSE, LogEvents |-> FALSE]
    /\ serial = TRUE

NextAutoChannel ==
    \/ Tick
    \/ \E t \in Threads :
        \/ StartRequestAutoChannel(t) \/ AutoChannelGetInfo(t) \/ GetLSPInfo(t)
        \/ AutoChannelConnectPeer(t) \/ RequestAutoChannelPost(t) \/ Finish(t)
        \/ FetchLock(t) \/ FetchReadAccessToken(t) \/ FetchReadExpiry(t)
        \/ FetchReadRefreshToken(t) \/ FetchExchangeFail(t) \/ FetchExchangeOk(t)
        \/ SaveExpiry(t) \/ SaveAccessToken(t) \/ SaveRefreshToken(t)

SpecAutoChannel == InitAutoChannel /\ [][NextAutoChannel]_vars

\* every operation of the service, called one after the other
NextAll ==
    \/ Next
    \/ \E t \in Threads :
        \/ StartRequestAutoChannel(t) \/ AutoChannelGetInfo(t) \/ GetLSPInfo(t)
        \/ AutoChannelConnectPeer(t) \/ RequestAutoChannelPost(t)
        \/ StartDrain(t) \/ DrainGetBalance(t) \/ DrainMakeInvoice(t)
        \/ DrainSendPayment(t)

\* auto-link and telemetry are on, so that the callback links and the relay
\* sends
InitAll ==
    /\ InitStored(InitStores)
    /\ InitProcess
    /\ env = [AutoLinkAlbyAccount |-> TRUE, LogEvents |-> TRUE]
    /\ serial = TRUE

SpecAll == InitAll /\ [][NextAll]_vars

\* DrainSharedWallet called on a fresh or a linked hub
InitDrain ==
    /\ InitStored(InitStores)
    /\ InitProcess
    /\ env = [AutoLinkAlbyAccount |-> FALSE, LogEvents |-> FALSE]
    /\ serial = TRUE

NextDrain ==
    \/ Tick
    \/ \E t \in Threads :
        \/ StartDrain(t) \/ DrainGetBalance(t) \/ DrainMakeInvoice(t)
        \/ DrainSendPayment(t) \/ Finish(t)
        \/ FetchLock(t) \/ FetchReadAccessToken(t) \/ FetchReadExpiry(t)
        \/ FetchReadRefreshToken(t) \/ FetchExchangeFail(t) \/ FetchExchangeOk(t)
        \/ SaveExpiry(t) \/ SaveAccessToken(t) \/ SaveRefreshToken(t)

SpecDrain == InitDrain /\ [][NextDrain]_vars

\* LinkAccount and UnlinkAccount requests served concurrently, on a fresh hub
\* or on a linked one whose token stays outside the buffer: no second passes
InitLink ==
    /\ InitStored({st \in InitStores : st.expiry \in {EmptyStr, FormatInt(TokenBuffer + 1)}})
    /\ InitProcess
    /\ env = [AutoLinkAlbyAccount |-> FALSE, LogEvents |-> FALSE]
    /\ serial = FALSE

NextLink ==
    \E t \in Threads :
        \/ StartLink(t) \/ LinkDeleteApps(t) \/ LinkDeleteAppsFail(t)
        \/ CreateNodeFail(t) \/ CreateNodeOk(t) \/ LinkCreateAppFail(t) \/ LinkCreateApp(t)
        \/ ActivateNodeFail(t) \/ ActivateNodeOk(t) \/ LinkReturn(t)
        \/ StartUnlink(t) \/ UnlinkDestroyNode(t) \/ UnlinkDeleteApps(t)
        \/ UnlinkDeleteAppsFail(t) \/ UnlinkClearUserIdentifier(t)
        \/ UnlinkClearAccessToken(t) \/ UnlinkClearExpiry(t)
        \/ UnlinkClearRefreshToken(t) \/ UnlinkClearLightningAddress(t)
        \/ Finish(t)
        \/ FetchLock(t) \/ FetchReadAccessToken(t) \/ FetchReadExpiry(t)
        \/ FetchReadRefreshToken(t)

SpecLink == InitLink /\ [][NextLink]_vars

\* ================================================================= claims
Done(t, o) == pc[t] = "done" /\ op[t] = o

\* no field of the persisted session p is empty
SessionComplete(p) ==
    p.accessToken # EmptyStr /\ p.expiry # EmptyStr /\ p.refreshToken # EmptyStr

\* the persisted session p as the token fetchUserToken builds from it
SessionOf(p) ==
    [AccessToken |-> p.accessToken, RefreshToken |-> p.refreshToken,
     Expiry |-> ParseInt(p.expiry).val]

SessionUnchanged(t) ==
    /\ accessToken = pre[t].accessToken
    /\ accessTokenExpiry = pre[t].expiry
    /\ refreshToken = pre[t].refreshToken

RECURSIVE SumExch(_)
SumExch(n) == IF n = 0 THEN 0 ELSE nExch[n] + SumExch(n - 1)

\* The case of C1: every goroutine has called for the token, all of them on the
\* same complete stored session, which had 20 seconds or less left at the one
\* time all of them checked it, and every call returned a session with more
\* than 20 seconds left.
C1_Case ==
    /\ \A t \in Threads :
          /\ Done(t, "IsConnected")
          /\ pre[t] = pre[1]
          /\ fNow[t] = fNow[1]
          /\ res[t].err = ""
          /\ res[t].token # NilToken
          /\ res[t].token.Expiry > fNow[1] + TokenBuffer
    /\ SessionComplete(pre[1])
    /\ SessionOf(pre[1]).Expiry <= fNow[1] + TokenBuffer

\* C1: when all NThreads goroutines call for the token concurrently on a stored
\* session that is within the 20-second buffer and the provider grants a token
\* valid for longer, exactly one refresh exchange is issued in total and every
\* caller returns the same new session, which is the one persisted.
C1_SingleFlight ==
    C1_Case =>
        /\ SumExch(NThreads) = 1
        /\ \A t \in Threads :
              /\ res[t].token = res[1].token
              /\ res[t].token = SessionOf(Persisted)
              /\ res[t].token.AccessToken # pre[1].accessToken

C1_Witness == C1_Case /\ SumExch(NThreads) = 1

C3_RefreshFailureKeepsSession ==
    \A t \in Threads :
        Done(t, "IsConnected") /\ nExch[t] > 0 /\ res[t].token = NilToken =>
            /\ res[t].err # ""
            /\ ~res[t].connected
            /\ nExch[t] = 1
            /\ SessionUnchanged(t)
            /\ SessionComplete(Persisted)
            /\ ~TokenStillUsable(SessionOf(Persisted).Expiry, now)

C3_Witness ==
    \E t \in Threads :
        /\ Done(t, "IsConnected")
        /\ nExch[t] = 1
        /\ res[t].err # ""
        /\ SessionComplete(pre[t])

\* every request has returned
Quiescent == \A t \in Threads : pc[t] \in {"idle", "done"}

\* program points at which the next step reads or writes a persisted session
\* field: fetchUserToken's three reads, saveToken's three writes, the clearing
\* of the access token in CallbackHandler, the clearing in UnlinkAccount and the
\* session check of ConsumeEvent
SessionAccessPcs ==
    {"f_at", "f_exp", "f_rt", "save_exp", "save_at", "save_rt",
     "cb_clear_me", "ul_at", "ul_exp", "ul_rt", "ce_at"}

\* C4: whenever a goroutine is about to read or write a persisted session field
\* (in fetchUserToken, saveToken, the clearing in CallbackHandler and
\* UnlinkAccount, the session check of ConsumeEvent), it holds tokenMutex.
C4_SessionAccessUnderLock ==
    \A t \in Threads :
        \/ pc[t] \in SessionAccessPcs
        \/ (pc[t] = "cb_branch" /\ existing[t] # "" /\ me[t].Identifier # existing[t])
        => tokenMutex = t

\* C5: once every request has returned, a non-empty persisted access token
\* comes with a non-empty persisted refresh token and a persisted expiry that
\* parses as a timestamp.
C5_SessionInvariant ==
    Quiescent /\ accessToken # EmptyStr =>
        /\ refreshToken # EmptyStr
        /\ ParseInt(accessTokenExpiry).ok

RelinkOtherAccount(t) ==
    /\ Done(t, "CallbackHandler")
    /\ pre[t].userIdentifier # ""
    /\ me[t].Identifier # ""
    /\ me[t].Identifier # pre[t].userIdentifier

C8_FailedCallbackClearsSession ==
    \A t \in Threads :
        Done(t, "CallbackHandler") /\ res[t].err \in {"mismatch", "getme"} =>
            /\ accessToken = EmptyStr
            /\ refreshToken = EmptyStr
            /\ accessTokenExpiry = EmptyStr

\* C9: after a callback that failed on the account mismatch, the stored account
\* id and the stored lightning address are those of before the callback.
C9_MismatchKeepsIdentity ==
    \A t \in Threads :
        Done(t, "CallbackHandler") /\ res[t].err = "mismatch" =>
            /\ userIdentifier = pre[t].userIdentifier
            /\ lightningAddress = pre[t].lightningAddress

\* C10: every step that changes the stored account id either writes it where it
\* was empty, in a callback that read it as empty, or empties it in
\* UnlinkAccount: a non-empty account id never becomes another non-empty one.
C10_UserIdentifierSetOnce ==
    [][userIdentifier' # userIdentifier =>
          \/ /\ userIdentifier = ""
             /\ \E t \in Threads :
                   op[t] = "CallbackHandler" /\ pc[t] = "cb_branch" /\ existing[t] = ""
          \/ /\ userIdentifier' = ""
             /\ \E t \in Threads : op[t] = "UnlinkAccount" /\ pc[t] = "ul_uid"]_vars

\* a callback for another account has returned and the account id is the old one
C10_Witness ==
    \E t \in Threads : RelinkOtherAccount(t) /\ userIdentifier = pre[t].userIdentifier

\* the callback of t ran the first-login branch: it fetched an identity while
\* no account id was stored
FirstLogin(t) ==
    /\ Done(t, "CallbackHandler")
    /\ pre[t].userIdentifier = ""
    /\ me[t].Identifier # ""

C12_AutoLinkFailureIsNotFatal ==
    \A t \in Threads :
        FirstLogin(t) /\ nLink[t] = 1 /\ res[t].linkErr # "" =>
            /\ res[t].err = ""
            /\ userIdentifier = me[t].Identifier
            /\ SessionComplete(Persisted)
            /\ accessToken[3] = me[t].Identifier
            /\ refreshToken[3] = me[t].Identifier

\* the auto-link failed at the activation, its last step
C12_Witness ==
    \E t \in Threads :
        FirstLogin(t) /\ nLink[t] = 1 /\ res[t].linkErr = "activate" /\ res[t].err = ""

C14_AtMostOneRecord ==
    Quiescent => Len(apps) <= 1

\* t runs LinkAccount, called directly or by the first-login callback
InLink(t) ==
    pc[t] \in {"lk_delete", "create_http", "lk_app", "activate_http", "lk_ret"}
    \/ (pc[t] \notin {"idle", "done"} /\ site[t] \in {"create_http", "activate_http"})

\* C15: every step of LinkAccount keeps the order delete, Create, scope
\* translation and record creation, Activate, and a failing step is the last:
\* after a deletion that left records behind, or a failed Create, LinkAccount
\* returns; the record is created only with the key a successful Create
\* returned and with the given budget and renewal; Activate is requested only
\* after the record was created.
C15_LinkStepOrder ==
    [][\A t \in Threads :
          /\ pc[t] = "lk_delete" /\ pc'[t] # "lk_delete" =>
                apps' = <<>> \/ pc'[t] = "lk_ret"
          /\ pc[t] = "create_http" /\ pc'[t] # "create_http" =>
                IF resp'[t] # NoResponse /\ resp'[t] < FirstNonSuccess /\ connKey'[t] # ""
                THEN pc'[t] = "lk_app" ELSE pc'[t] = "lk_ret" /\ apps' = apps
          /\ InLink(t) /\ Len(apps') > Len(apps) =>
                /\ pc[t] = "lk_app"
                /\ connKey[t] # ""
                /\ sent[t][Len(sent[t])] = "POST internal/nwcs"
                /\ apps'[Len(apps')].pubkey = connKey[t]
                /\ apps'[Len(apps')].budget = largs[t].budget
                /\ apps'[Len(apps')].renewal = largs[t].renewal
          /\ InLink(t) /\ sent'[t] # sent[t]
                /\ sent'[t][Len(sent'[t])] = "PUT internal/nwcs/activate" =>
                /\ Len(apps) > 0
                /\ apps[Len(apps)].pubkey = connKey[t]
      ]_vars

\* LinkAccount of t got as far as the activation and the activation failed
ActivationFailed(t) ==
    /\ pc[t] = "done"
    /\ op[t] \in {"LinkAccount", "CallbackHandler"}
    /\ res[t].linkErr = "activate"

\* C16: when the activation fails after the connection record was created,
\* LinkAccount returns the activation error and the record it created is still
\* the last record of the table.
C16_NoRollback ==
    \A t \in Threads :
        ActivationFailed(t) =>
            /\ op[t] = "LinkAccount" => res[t].err = "activate"
            /\ Len(apps) > 0
            /\ apps[Len(apps)].name = "getalby.com"
            /\ apps[Len(apps)].pubkey = connKey[t]
            /\ apps[Len(apps)].budget = largs[t].budget
            /\ apps[Len(apps)].renewal = largs[t].renewal

\* the activation request was answered with a non-success status
C16_Witness ==
    \E t \in Threads :
        /\ ActivationFailed(t)
        /\ op[t] = "LinkAccount"
        /\ resp[t] >= FirstNonSuccess
        /\ Len(apps) > 0

\* LinkAccount of t has created its connection record
RecordCreated(t) ==
    /\ pc[t] = "done"
    /\ op[t] \in {"LinkAccount", "CallbackHandler"}
    /\ nLink[t] = 1 \/ op[t] = "LinkAccount"
    /\ res[t].linkErr \in {"", "activate"}
    /\ connKey[t] # ""

\* C17: the scopes of the record LinkAccount created are the scopes of the
\* node's request methods, and the notifications scope if and only if the node
\* reports a notification type.
C17_Scopes ==
    \A t \in Threads :
        RecordCreated(t) =>
            /\ apps[Len(apps)].scopes \ {"notifications"}
                  = RequestMethodsToScopes(largs[t].methods)
            /\ "notifications" \in apps[Len(apps)].scopes <=> largs[t].notifs # {}

\* a node without notification types got a record without the scope
C17_Witness ==
    \E t \in Threads :
        /\ RecordCreated(t)
        /\ largs[t].notifs = {}
        /\ largs[t].methods # {}
        /\ "notifications" \notin apps[Len(apps)].scopes

\* C18: UnlinkAccount returns nil whether or not the destroy request or the
\* token retrieval for it failed, and when it returns the access token, the
\* refresh token, the expiry, the account id and the lightning address are all
\* empty; the IsConnected that follows answers false without any exchange.
C18_UnlinkClearsAll ==
    \A t \in Threads :
        /\ Done(t, "UnlinkAccount") =>
              /\ res[t].err = ""
              /\ accessToken = EmptyStr
              /\ refreshToken = EmptyStr
              /\ accessTokenExpiry = EmptyStr
              /\ userIdentifier = ""
              /\ lightningAddress = ""
        /\ Done(t, "IsConnected") /\ lastDone = "unlinked" =>
              /\ ~res[t].connected
              /\ res[t].token = NilToken
              /\ nExch[t] = 0

\* the refresh for the destroy request failed on a linked hub, and Unlink returned
C18_Witness ==
    \E t \in Threads :
        /\ Done(t, "UnlinkAccount")
        /\ SessionComplete(pre[t])
        /\ pre[t].userIdentifier # ""
        /\ ferr[t]
        /\ lerr[t] = "destroy"
        /\ res[t].err = ""

\* requests of t to path p
RECURSIVE CountSent(_, _)
CountSent(q, p) ==
    IF q = <<>> THEN 0
    ELSE (IF q[1] = p THEN 1 ELSE 0) + CountSent(Tail(q), p)

\* C19: a provisioning request that was answered with a non-success status
\* gives an error that carries that status, Create hands out a connection key
\* only on a success status, and an invocation that had a token sent exactly
\* one request.
C19_ProvisioningErrors ==
    \A t \in Threads :
        /\ pc[t] = "lk_app" =>
              /\ connKey[t] # ""
              /\ resp[t] # NoResponse /\ resp[t] < FirstNonSuccess
              /\ CountSent(sent[t], "POST internal/nwcs") = 1
        /\ pc[t] = "lk_ret" /\ lerr[t] = "create" => connKey[t] = ""
        /\ pc[t] = "lk_ret" /\ lerr[t] \in {"create", "activate"}
              /\ resp[t] >= FirstNonSuccess =>
              /\ ErrStatus(lerr[t]) = resp[t]
              /\ CountSent(sent[t], "POST internal/nwcs") = 1
              /\ CountSent(sent[t], "PUT internal/nwcs/activate")
                    = (IF lerr[t] = "activate" THEN 1 ELSE 0)
        /\ pc[t] = "ul_delete" /\ resp[t] >= FirstNonSuccess =>
              /\ lerr[t] = "destroy"
              /\ ErrStatus(lerr[t]) = resp[t]
              /\ CountSent(sent[t], "DELETE internal/nwcs") = 1

\* C20: a LinkAccount during which the token retrieval for a provider request
\* failed returns the error of that retrieval, and has sent no request after it.
C20_FirstErrorReturned ==
    \A t \in Threads :
        Done(t, "LinkAccount") /\ ferr[t] =>
            /\ res[t].err = "token"
            /\ CountSent(sent[t], "PUT internal/nwcs/activate") = 0
            /\ connKey[t] = "" => CountSent(sent[t], "POST internal/nwcs") = 0

\* ------------------------------------------------------- telemetry relay
\* how an invocation of ConsumeEvent can end with a normal return
RelayOutcomes ==
    {"config failed", "no token", "disabled", "internal", "recovered", "cast failed",
     "token failed", "encode failed", "decode failed", "post failed", "status",
     "posted", "backup failed", "backup done"}

\* C21: whatever the event is and whichever internal step fails (the config
\* read, the token refresh, a payment event whose properties are not a
\* transaction, a missing settlement time, serialization, transport, a
\* non-success status), ConsumeEvent returns normally: no error and no panic
\* reaches its caller.
C21_Containment ==
    \A t \in Threads :
        Done(t, "ConsumeEvent") =>
            /\ res[t].err = ""
            /\ res[t].note \in RelayOutcomes
            /\ res[t].note # "panic"

\* a sent payment without a settlement time was relayed: the nil dereference
\* was recovered
C21_Witness ==
    \E t \in Threads :
        /\ Done(t, "ConsumeEvent")
        /\ ev[t].Event = "nwc_payment_sent" /\ ev[t].kind = "tx" /\ ~ev[t].tx.Settled
        /\ res[t].note = "recovered"

\* the requests of operation o's invocation by t that went to endpoint q
SentTo(t, q) == {i \in 1..Len(sent[t]) : sent[t][i] = q}

\* C22: an event is POSTed to /events only if a session exists (fetchUserToken
\* gave a token), LogEvents is on, and the event is neither the backup event
\* nor an internal nwc_lnclient_ event; and when there is no session or
\* LogEvents is off, the invocation sends nothing at all to the provider: no
\* event, no backup upload, no refresh exchange.
C22_RelayFilter ==
    \A t \in Threads :
        op[t] = "ConsumeEvent" =>
            /\ SentTo(t, "POST events") # {} =>
                  /\ SessionComplete(pre[t])
                  /\ token[t] # NilToken /\ ~ferr[t]
                  /\ env.LogEvents
                  /\ ev[t].Event # "nwc_backup_channels"
                  /\ ~IsLNClientEvent(ev[t].Event)
                  /\ ev[t].Event # "nwc_lnclient_started"
            /\ (~SessionComplete(pre[t]) \/ ~env.LogEvents) =>
                  sent[t] = <<>> /\ nExch[t] = 0

\* an event went to /events
C22_Witness ==
    \E t \in Threads :
        /\ Done(t, "ConsumeEvent")
        /\ res[t].note = "posted"
        /\ sent[t] = <<"POST events">>
        /\ ev[t].Event = "nwc_app_created"

\* the errors backupChannels returns, by the step that failed
BackupErrors == {"cast", "token", "encode", "key", "encrypt", "transport", "status"}

\* C23: a channel-backup event relayed with a session and LogEvents on calls
\* backupChannels exactly once and is never POSTed to /events; whether the
\* upload succeeds or fails (at encoding, key retrieval, encryption, transport
\* or with a non-success status), /internal/backups is requested at most once
\* and ConsumeEvent returns normally.
C23_BackupOnce ==
    \A t \in Threads :
        /\ op[t] = "ConsumeEvent" =>
              /\ res[t].uploads <= 1
              /\ CountSent(sent[t], "POST internal/backups") <= 1
              /\ ev[t].Event = "nwc_backup_channels" => SentTo(t, "POST events") = {}
        /\ (/\ Done(t, "ConsumeEvent")
            /\ ev[t].Event = "nwc_backup_channels"
            /\ pre[t].accessToken # EmptyStr /\ env.LogEvents
            /\ res[t].note # "config failed") =>
              /\ res[t].uploads = 1
              /\ res[t].err = ""
              /\ \/ res[t].note = "backup done" /\ res[t].berr = ""
                 \/ res[t].note = "backup failed" /\ res[t].berr \in BackupErrors
              /\ res[t].berr \in {"status", ""} =>
                    CountSent(sent[t], "POST internal/backups") = 1

\* an upload that was answered with a non-success status: sent once
C23_Witness ==
    \E t \in Threads :
        /\ Done(t, "ConsumeEvent")
        /\ ev[t].Event = "nwc_backup_channels"
        /\ res[t].note = "backup failed" /\ res[t].berr = "status"
        /\ sent[t] = <<"POST internal/backups">>

\* what the body of a relayed payment event may depend on
Determinants(e) ==
    [name |-> e.Event,
     hash |-> e.tx.PaymentHash,
     settled |-> IF e.Event = "nwc_payment_sent" THEN e.tx.SettledAt ELSE 0,
     created |-> IF e.Event = "nwc_payment_sent" THEN e.tx.CreatedAt ELSE 0,
     reason |-> IF e.Event = "nwc_payment_failed" THEN e.tx.FailureReason ELSE "",
     globals |-> e.globals]

\* the payment events that carry a transaction ConsumeEvent can read
Relayable(e) == IsPaymentEvent(e.Event) /\ RewriteEvent(e).outcome = "ok"

\* the fields of a transaction that no payment event may give away
RedactedKeys == {"amount_msat", "created_at", "settled_at", "failure_reason"}

\* C24: what is POSTed to /events for a received, sent or failed payment is
\* determined by the event name, the payment hash, the settled and created
\* times (sent), the failure reason (failed) and the global properties: any
\* payment event that agrees with the relayed one on these gives the same
\* body, and the body is never the encoded transaction.
C24_Redaction ==
    \A t \in Threads :
        (op[t] = "ConsumeEvent" /\ IsPaymentEvent(ev[t].Event) /\ res[t].posted # NoBody) =>
            /\ \A e \in RelayEvents :
                  (Relayable(e) /\ Determinants(e) = Determinants(ev[t])) =>
                      EventBody(RewriteEvent(e).event).body = res[t].posted
            /\ DOMAIN res[t].posted.properties \cap RedactedKeys = {}
            /\ res[t].posted.properties #
                  MergeGlobalProperties(TransactionJSON(ev[t].tx), ev[t].globals)
            /\ "payment_hash" \in DOMAIN res[t].posted.properties
            /\ res[t].posted.properties.payment_hash = ev[t].tx.PaymentHash

\* a sent payment of 2000 msat was posted
C24_Witness ==
    \E t \in Threads :
        /\ Done(t, "ConsumeEvent")
        /\ ev[t].Event = "nwc_payment_sent"
        /\ ev[t].tx.AmountMsat = 2000 /\ ev[t].tx.FailureReason = "no_route"
        /\ res[t].note = "posted"
        /\ res[t].posted.properties.duration = 2

\* C25: the properties POSTed to /events hold every key of the (rewritten)
\* event with the event's value, every global key the event does not have
\* with the global value, and no other key: a global property never replaces
\* one of the event's own ({paymentHash: abc} with globals {paymentHash: xyz,
\* version: 1} posts {paymentHash: abc, version: 1}).
C25_GlobalMerge ==
    \A t \in Threads :
        (op[t] = "ConsumeEvent" /\ res[t].posted # NoBody) =>
            LET e == RewriteEvent(ev[t]).event
                local == IF e.kind = "struct" THEN e.fields ELSE EmptyMap
                posted == res[t].posted.properties
            IN  /\ DOMAIN posted = DOMAIN local \cup DOMAIN ev[t].globals
                /\ \A k \in DOMAIN local : posted[k] = local[k]
                /\ \A k \in DOMAIN ev[t].globals \ DOMAIN local : posted[k] = ev[t].globals[k]
                /\ (local = [paymentHash |-> "abc"]
                    /\ ev[t].globals = [paymentHash |-> "xyz", version |-> "1"]) =>
                        posted = [paymentHash |-> "abc", version |-> "1"]

\* the event {paymentHash: abc} was posted with globals {paymentHash: xyz, version: 1}
C25_Witness ==
    \E t \in Threads :
        /\ Done(t, "ConsumeEvent")
        /\ res[t].note = "posted"
        /\ ev[t].kind = "struct" /\ ev[t].fields = [paymentHash |-> "abc"]
        /\ ev[t].globals = [paymentHash |-> "xyz", version |-> "1"]

\* ------------------------------------------------------------ no retries
\* the requests the operations send to the provider and to the LSP endpoints
\* it operates, the token endpoint aside
ProviderRequests ==
    {"internal/users", "POST internal/nwcs", "PUT internal/nwcs/activate",
     "DELETE internal/nwcs", "POST events", "POST internal/backups",
     "GET lsp/get_info", "POST lsp/auto_channel", "GET internal/lndhub/balance",
     "POST internal/lndhub/bolt11"}

\* what a step of t's invocation may add to the requests it has issued
NoRetryStep(t) ==
    /\ \A i \in 1..Len(sent'[t]) : sent'[t][i] \in ProviderRequests \cup {"oauth/token"}
    /\ \A q \in ProviderRequests : CountSent(sent'[t], q) <= 1
    /\ CountSent(sent'[t], "oauth/token") - nExch'[t] \in
          IF op'[t] = "CallbackHandler" THEN {0, 1} ELSE {0}
    /\ nExch'[t] > nExch[t] =>
          /\ nExch'[t] = nExch[t] + 1
          /\ pc[t] = "f_exchange" /\ pc'[t] # "f_exchange"
    /\ (ferr[t] /\ op'[t] = op[t]) => nExch'[t] = nExch[t]

ClearIPv4(uri) == NotOnion(uri) /\ FindStringSubmatch(uri) # <<>>

\* the URIs of a list that satisfy keep, in their order
Kept(uris, keep(_)) == SelectSeq(uris, keep)

\* the peer a URI of the form pubkey@ipv4:port names, with the port as written
PeerOf(uri) ==
    LET parts == FindStringSubmatch(uri)
    IN  [pubkey |-> parts[2], address |-> parts[3], port |-> DecimalValue(parts[4], 0)]

\* t's RequestAutoChannel has the LSP's answer
LSPAnswered(t) == op[t] = "RequestAutoChannel" /\ work[t].answered

\* C27: when no advertised URI survives the filter (the list is empty or all
\* its URIs are onion addresses) or the selected candidate is not of the form
\* pubkey@ipv4:port, RequestAutoChannel returns an error, ConnectPeer is not
\* called and no auto-channel request is submitted.
C27_NoCandidateIsError ==
    \A t \in Threads :
        (/\ LSPAnswered(t)
         /\ \/ Kept(work[t].uris, NotOnion) = <<>>
            \/ FindStringSubmatch(Kept(work[t].uris, NotOnion)[1]) = <<>>) =>
            /\ pc[t] = "done" /\ res[t].err # ""
            /\ work[t].connects = <<>>
            /\ work[t].requests = <<>>

\* C28: the peer RequestAutoChannel connects to is the first advertised URI
\* that is reachable over clear IPv4, with that URI's pubkey, address and
\* port: the others are discarded before the first candidate is taken, so a
\* list that holds such a URI leads to ConnectPeer with it.
C28_FirstClearIPv4 ==
    \A t \in Threads :
        LSPAnswered(t) =>
            /\ work[t].connects # <<>> =>
                  /\ Kept(work[t].uris, ClearIPv4) # <<>>
                  /\ work[t].connects[1].peer = PeerOf(Kept(work[t].uris, ClearIPv4)[1])
            /\ Kept(work[t].uris, ClearIPv4) # <<>> =>
                  \/ pc[t] = "ac_connect"
                  \/ work[t].connects # <<>>

\* C29: the auto-channel request is submitted only after GetInfo, the LSP
\* info fetch and ConnectPeer to the LSP's peer have succeeded, in this
\* order, and it carries the pubkey GetInfo reported.
C29_StepOrder ==
    \A t \in Threads :
        (op[t] = "RequestAutoChannel" /\ work[t].requests # <<>>) =>
            /\ work[t].nodePubkey # ""
            /\ work[t].requests = <<[node_pubkey |-> work[t].nodePubkey]>>
            /\ work[t].answered
            /\ Kept(work[t].uris, NotOnion) # <<>>
            /\ work[t].peer # NoPeer
            /\ work[t].connects = <<[peer |-> work[t].peer, ok |-> TRUE]>>
            /\ CountSent(sent[t], "GET lsp/get_info") = 1

\* t's RequestAutoChannel has returned after an auto-channel answer that
\* includes a payment
PaymentAnswered(t) ==
    /\ op[t] = "RequestAutoChannel" /\ pc[t] = "done"
    /\ work[t].requests # <<>>
    /\ work[t].body.payment

\* the invoice amount in satoshis as the code takes it: the millisatoshis
\* divided by 1000, the remainder dropped
InvoiceSat(invoice) == Decodepay(invoice).MSatoshi \div MsatPerSat

BalanceRead(t) == op[t] = "DrainSharedWallet" /\ work[t].balanceRead

\* floor(982*b/1000) - 10 in exact arithmetic
ExactAmountSat(b) == Minus(DivSmall(Mul(NatLimbs(982), b), 1000).q, 10)

\* C31: for every custodial balance b the withdrawable amount computed by
\* DrainSharedWallet is floor(b - 0.008*b - 0.01*b) - 10, that is
\* floor(982*b/1000) - 10 in exact arithmetic (972 for b = 1000), and the
\* invoice requested from the local node is for that amount times 1000
\* millisatoshis.
C31_DrainMath ==
    \A t \in Threads :
        BalanceRead(t) =>
            /\ work[t].amountSat = ExactAmountSat(work[t].balance)
            /\ work[t].balance = NatLimbs(1000) => work[t].amountSat = Int64(FALSE, NatLimbs(972))
            /\ work[t].invoices # <<>> =>
                  work[t].invoices = <<Mul(ExactAmountSat(work[t].balance).mag, NatLimbs(1000))>>

\* the withdrawable amount t computed is below 1 satoshi
BelowOneSat(t) == work[t].amountSat.neg \/ Less(work[t].amountSat.mag, NatLimbs(1))

GrantOf(s) == s[2]

\* C33: fetchUserToken never returns a session whose access token and
\* refresh token (and expiry) come from two different token grants, also
\* while CallbackHandler saves a freshly exchanged token with the three
\* writes of saveToken.
C33_NoTornSession ==
    \A t \in Threads :
        token[t] # NilToken => GrantOf(token[t].AccessToken) = GrantOf(token[t].RefreshToken)

\* an UnlinkAccount has returned and no CallbackHandler is under way
UnlinkReturned ==
    /\ \E t \in Threads : Done(t, "UnlinkAccount")
    /\ \A t \in Threads : op[t] # "CallbackHandler"

\* C34: once UnlinkAccount has returned, and until the next successful
\* CallbackHandler, the persisted session stays empty and IsConnected answers
\* false, also when a refresh by a concurrent fetchUserToken was in flight
\* while UnlinkAccount cleared the session fields.
C34_UnlinkFinal ==
    UnlinkReturned =>
        /\ accessToken = EmptyStr
        /\ refreshToken = EmptyStr
        /\ accessTokenExpiry = EmptyStr
        /\ \A t \in Threads :
              (Done(t, "IsConnected") /\ ~SessionComplete(pre[t])) => ~res[t].connected

\* the connection records with the reserved app name
ReservedRecords == {i \in DOMAIN apps : apps[i].name = ALBY_ACCOUNT_APP_NAME}

\* C35: under any interleaving of two concurrent LinkAccount calls, or of a
\* LinkAccount with an UnlinkAccount, at most one connection record with the
\* reserved app name exists once both have completed.
C35_ConcurrentLinkOneRecord ==
    (\A t \in Threads : Done(t, "LinkAccount") \/ Done(t, "UnlinkAccount")) =>
        Cardinality(ReservedRecords) <= 1

\* the program points of fetchUserToken between Lock and the return
HoldingPcs == {"f_at", "f_exp", "f_rt", "f_exchange", "save_exp", "save_at", "save_rt"}

\* C36: tokenMutex is released on every exit path of fetchUserToken, so,
\* provided each refresh exchange returns, every caller blocked on the lock
\* eventually acquires it and every call of fetchUserToken eventually
\* returns.
C36_LockReleased ==
    /\ [](\A t \in Threads : tokenMutex = t => pc[t] \in HoldingPcs)
    /\ \A t \in Threads : (pc[t] = "f_lock") ~> (tokenMutex = t)
    /\ \A t \in Threads : (pc[t] = "f_lock") ~> (pc[t] = "ic_ret")

\* a caller waits for the lock while another one refreshes
C36_Witness ==
    \E t, u \in Threads :
        /\ pc[t] = "f_lock"
        /\ tokenMutex = u /\ u # t
        /\ pc[u] = "f_exchange"

\* C37: whenever UnlinkAccount returns success, no connection record with
\* the reserved app name remains, also when the deletion of the local
\* records reported a failure.
C37_UnlinkDeletesRecords ==
    \A t \in Threads :
        (Done(t, "UnlinkAccount") /\ res[t].err = "") => ReservedRecords = {}

\* a step in which the CallbackHandler of t invokes LinkAccount
CallbackLinks(t) == op[t] = "CallbackHandler" /\ nLink'[t] > nLink[t]

WrittenPort(uris) == PeerOf(Kept(uris, NotOnion)[1]).port

\* C39: the port RequestAutoChannel passes to ConnectPeer equals the decimal
\* port number written in the selected LSP URI; a URI whose port is greater
\* than 65535 is rejected with an error rather than being reduced modulo
\* 2^16.
C39_PortAsWritten ==
    \A t \in Threads :
        (/\ LSPAnswered(t)
         /\ Kept(work[t].uris, NotOnion) # <<>>
         /\ FindStringSubmatch(Kept(work[t].uris, NotOnion)[1]) # <<>>) =>
            /\ \A i \in 1..Len(work[t].connects) :
                  work[t].connects[i].peer.port = WrittenPort(work[t].uris)
            /\ WrittenPort(work[t].uris) >= PortModulus =>
                  /\ pc[t] = "done" /\ res[t].err # ""
                  /\ work[t].connects = <<>>

\* t's RequestAutoChannel has returned after it submitted the auto-channel
\* request
AutoChannelReturned(t) ==
    /\ op[t] = "RequestAutoChannel" /\ pc[t] = "done"
    /\ work[t].requests # <<>>

\* s is a base-10 unsigned integer (of at most MaxDigits digits)
IsUnsignedDecimal(s) ==
    /\ s # <<>>
    /\ \A i \in 1..Len(s) : s[i] \in Digit
    /\ Len(Significant(s)) <= MaxDigits

\* C40: when the auto-channel answer carries no payment, RequestAutoChannel
\* decodes no invoice and checks no fee (the absent invoice would not decode
\* and the absent fee would not parse) and returns an empty invoice, fee 0
\* and the parsed channel size; with or without a payment, a channel size
\* (or, with a payment, a fee) that is not a base-10 unsigned integer makes
\* it return an error and no result.
C40_NoPaymentResponse ==
    \A t \in Threads :
        AutoChannelReturned(t) =>
            LET body == work[t].body
            IN  /\ (~body.payment /\ IsUnsignedDecimal(body.lsp_balance_sat)) =>
                      /\ res[t].err = ""
                      /\ work[t].result = [Invoice |-> NoInvoice, Fee |-> 0,
                                           ChannelSize |-> DecimalValue(body.lsp_balance_sat, 0)]
                /\ ~IsUnsignedDecimal(body.lsp_balance_sat) =>
                      res[t].err # "" /\ work[t].result = NoResult
                /\ (body.payment /\ ~IsUnsignedDecimal(body.fee_total_sat)) =>
                      res[t].err # "" /\ work[t].result = NoResult

\* an answer without payment and with channel size 100000 was accepted,
\* though its absent invoice does not decode and its absent fee is no number
C40_Witness ==
    \E t \in Threads :
        /\ AutoChannelReturned(t)
        /\ ~work[t].body.payment
        /\ work[t].body.lsp_balance_sat = <<"1", "0", "0", "0", "0", "0">>
        /\ ~Decodepay(work[t].body.invoice).ok
        /\ work[t].body.fee_total_sat = <<>>
        /\ res[t].err = ""
        /\ work[t].result.Invoice = NoInvoice
        /\ work[t].result.Fee = 0
        /\ work[t].result.ChannelSize = 100000
====
